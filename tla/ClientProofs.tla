---------------------------- MODULE ClientProofs ----------------------------
(* Theorems of the two ways to follow a job from outside, for every value of their
   constants: the event stream and the MCP adapter. *)
EXTENDS EventStream, McpAdapter, JobStoreProofs, SequenceTheorems

-----------------------------------------------------------------------------
(* EventStream: the inductive invariant *)

Opened(s) == stream[s].phase # "none" /\ ~stream[s].closed

\* The events that went to the client, those it has not read included.
Sent == Len(received) + Len(wire)

\* The numbers that come after n.
Counts(seq, n) == \A i \in DOMAIN seq : seq[i] = n + i

NothingSkipped == Counts(received, 0) /\ Counts(wire, Len(received))

OneConnection ==
  /\ \A s, t \in Streams : Opened(s) /\ Opened(t) => s = t
  /\ (\A s \in Streams : ~Opened(s)) => wire = <<>>

\* A connection that is to come has no history, and before the first of them the
\* client has read nothing.
UnusedIsBlank ==
  /\ \A s \in Streams :
       stream[s].phase = "none" => ~stream[s].closed /\ stream[s].batch = <<>>
  /\ (\A s \in Streams : stream[s].phase = "none") => received = <<>>

\* The cursor of the open connection stands behind what was written, the batch goes
\* on from there, and neither is ahead of the log.
CursorSound ==
  /\ \A s \in Streams : Opened(s) =>
       /\ stream[s].cursor = Sent
       /\ Counts(stream[s].batch, Sent)
       /\ JobExists(Watched) => Sent + Len(stream[s].batch) <= Len(Log)
  /\ JobExists(Watched) => Sent <= Len(Log)

StreamInd == StreamTypeOK /\ NothingSkipped /\ OneConnection /\ UnusedIsBlank /\ CursorSound

\* Only a read that found something leaves anything to write, or to drain.
FoundSound ==
  \A s \in Streams :
    stream[s].batch # <<>> \/ stream[s].phase = "draining" => stream[s].found

\* Between the two reads of a poll that found nothing the log is at the cursor.
EmptyIsCurrent ==
  \A s \in Streams :
    Opened(s) /\ stream[s].phase = "writing" /\ ~stream[s].found /\ JobExists(Watched) =>
      Sent = Len(Log)

EndInd == FoundSound /\ EmptyIsCurrent /\ EndsComplete

-----------------------------------------------------------------------------
(* Numbers in a row *)

LEMMA CountsEmpty ==
  ASSUME NEW n
  PROVE  <<>> \in Seq(Nat) /\ Counts(<<>>, n) /\ Len(<<>>) = 0
BY DEF Counts

LEMMA CountsAppend ==
  ASSUME NEW seq \in Seq(Nat), NEW n \in Nat, Counts(seq, n)
  PROVE  LET longer == Append(seq, n + Len(seq) + 1) IN
         /\ longer \in Seq(Nat)
         /\ Counts(longer, n)
         /\ Len(longer) = Len(seq) + 1
<1> DEFINE next == n + Len(seq) + 1  longer == Append(seq, next)
<1>1. Len(seq) \in Nat /\ next \in Nat /\ DOMAIN seq = 1 .. Len(seq)
  OBVIOUS
<1>2. /\ longer \in Seq(Nat) /\ Len(longer) = Len(seq) + 1
      /\ \A i \in 1 .. Len(seq) : longer[i] = seq[i]
      /\ longer[Len(seq) + 1] = next
  BY <1>1, AppendProperties
<1>3. DOMAIN longer = 1 .. Len(seq) + 1
  BY <1>2
<1> HIDE DEF longer
<1>4. ASSUME NEW i \in 1 .. Len(seq) + 1 PROVE longer[i] = n + i
  <2>1. CASE i \in 1 .. Len(seq)
    BY <1>1, <1>2, <2>1 DEF Counts
  <2>2. CASE i = Len(seq) + 1
    BY <1>1, <1>2, <2>2
  <2> QED
    BY <1>1, <2>1, <2>2
<1> QED
  BY <1>2, <1>3, <1>4 DEF longer, Counts

LEMMA CountsTail ==
  ASSUME NEW seq \in Seq(Nat), NEW n \in Nat, Counts(seq, n), seq # <<>>
  PROVE  /\ Head(seq) = n + 1
         /\ Tail(seq) \in Seq(Nat)
         /\ Counts(Tail(seq), n + 1)
         /\ Len(seq) \in Nat \ {0} /\ Len(Tail(seq)) = Len(seq) - 1
<1>1. /\ Tail(seq) \in Seq(Nat) /\ Len(Tail(seq)) = Len(seq) - 1
      /\ \A i \in 1 .. Len(Tail(seq)) : Tail(seq)[i] = seq[i + 1]
  BY HeadTailProperties
<1>2. Len(seq) \in Nat \ {0} /\ DOMAIN seq = 1 .. Len(seq) /\ Head(seq) = seq[1]
  OBVIOUS
<1>3. DOMAIN Tail(seq) = 1 .. Len(seq) - 1
  BY <1>1, <1>2
<1>4. ASSUME NEW i \in 1 .. Len(seq) - 1 PROVE Tail(seq)[i] = n + 1 + i
  <2>1. i + 1 \in DOMAIN seq /\ Tail(seq)[i] = seq[i + 1]
    BY <1>1, <1>2
  <2>2. seq[i + 1] = n + (i + 1)
    BY <2>1 DEF Counts
  <2> QED
    BY <2>1, <2>2
<1>5. Head(seq) = n + 1
  BY <1>2 DEF Counts
<1> QED
  BY <1>1, <1>2, <1>3, <1>4, <1>5 DEF Counts

\* A page continues the cursor, stays inside the log, and is empty at its end.
LEMMA PageSound ==
  ASSUME StoreTypeOK, NEW s \in Streams, stream[s].cursor \in Nat,
         stream[s].cursor <= Len(Log)
  PROVE  /\ NextPage(s) \in Seq(Nat)
         /\ Counts(NextPage(s), stream[s].cursor)
         /\ stream[s].cursor + Len(NextPage(s)) <= Len(Log)
         /\ NextPage(s) = <<>> => stream[s].cursor = Len(Log)
<1> DEFINE c == stream[s].cursor
           n == Len(Log) - c
           m == IF n < Page THEN n ELSE Page
<1>1. Log \in Seq(EventType)
  BY StreamAssumption DEF StoreTypeOK, Log
<1>2. Len(Log) \in Nat /\ Page \in Nat \ {0}
  BY <1>1, StreamAssumption
<1>3. n \in Nat /\ m \in Nat /\ m <= n /\ (m = 0 => n = 0)
  BY <1>2
<1> HIDE DEF m
<1>4. NextPage(s) = [i \in 1 .. m |-> c + i]
  BY DEF NextPage, m
<1>5. NextPage(s) \in Seq(Nat) /\ Len(NextPage(s)) = m
  BY <1>3, <1>4
<1>6. Counts(NextPage(s), c)
  BY <1>3, <1>4 DEF Counts
<1>7. c + m <= Len(Log) /\ (m = 0 => c = Len(Log))
  BY <1>2, <1>3
<1> QED
  BY <1>5, <1>6, <1>7

-----------------------------------------------------------------------------
(* The store behind the stream *)

\* Whatever the gateway does beside the stream, it is a call of the store; and a
\* stream writes nothing.
LEMMA StreamCallsAreAllowed ==
  ASSUME [Next]_vars
  PROVE  [StoreNext]_storeVars
<1>1. CASE Work
  BY <1>1 DEF Work, StoreNext, GatewayNext
<1>2. CASE Restart
  BY <1>2 DEF Restart, StoreNext, GatewayNext
<1>3. CASE Read
  BY <1>3 DEF Read
<1>4. ASSUME NEW s \in Streams, Open(s) \/ Disconnect(s) \/ Handler(s)
      PROVE  [StoreNext]_storeVars
  BY <1>4 DEF Open, Disconnect, Handler, Leave, Poll, ReadFails, Write, Drained, Check, Move
<1>5. CASE UNCHANGED vars
  BY <1>5 DEF vars
<1> QED
  BY <1>1, <1>2, <1>3, <1>4, <1>5 DEF Next

\* The store under the stream is the store: what is proved of it holds here.
THEOREM StreamImplementsStore == Spec => StoreSpec
<1>1. Init => StoreInit
  BY DEF Init
<1>2. [Next]_vars => [StoreNext]_storeVars
  BY StreamCallsAreAllowed
<1> QED
  BY <1>1, <1>2, PTL DEF Spec, StoreSpec

\* The log the client follows never gets shorter while there is one.
LEMMA WatchedLogStays ==
  ASSUME StoreTypeOK, [StoreNext]_storeVars, JobExists(Watched), JobExists(Watched)'
  PROVE  Len(Log) \in Nat /\ Len(Log') \in Nat /\ Len(Log) <= Len(Log')
<1>1. LogGrows(Watched)
  BY JobsGrow, StreamAssumption
<1>2. Log \in Seq(EventType)
  BY StreamAssumption DEF StoreTypeOK, Log
<1>3. CASE Log' = Log
  BY <1>2, <1>3
<1>4. ASSUME NEW e \in EventType, Log' = Append(Log, e)
      PROVE  Len(Log) \in Nat /\ Len(Log') \in Nat /\ Len(Log) <= Len(Log')
  BY <1>2, <1>4, Appended
<1> QED
  BY <1>1, <1>3, <1>4 DEF LogGrows, Log

\* And it stands once the job is over.
LEMMA WatchedEndStays ==
  ASSUME StoreTypeOK, EventLogMatches, EventLogMatches', [StoreNext]_storeVars,
         IsTerminal(Watched), JobExists(Watched)'
  PROVE  IsTerminal(Watched)' /\ Log' = Log
<1>1. jobs'[Watched] = jobs[Watched] /\ jobEvents'[Watched] = jobEvents[Watched]
  BY EndedStays, StreamAssumption
<1> QED
  BY <1>1 DEF Log, IsTerminal

-----------------------------------------------------------------------------
(* What a step does to the streams *)

LEMMA InitSound == Init => StreamInd /\ EndInd
<1> SUFFICES ASSUME Init PROVE StreamInd /\ EndInd
  OBVIOUS
<1>1. /\ received = <<>> /\ wire = <<>>
      /\ stream \in [Streams -> Stream]
      /\ \A s \in Streams : /\ stream[s].phase = "none" /\ ~stream[s].closed
                            /\ stream[s].batch = <<>>
  BY DEF Init, Stream, Phase
<1>2. ~JobExists(Watched)
  BY StreamAssumption DEF Init, StoreInit, NoJobRow, JobExists
<1>3. \A s \in Streams : ~Opened(s)
  BY <1>1 DEF Opened
<1>4. StreamInd
  BY <1>1, <1>2, <1>3, CountsEmpty
  DEF StreamInd, StreamTypeOK, NothingSkipped, OneConnection, UnusedIsBlank, CursorSound
<1> QED
  BY <1>1, <1>2, <1>3, <1>4 DEF EndInd, FoundSound, EmptyIsCurrent, EndsComplete

LEMMA LengthsTyped ==
  ASSUME StreamInd
  PROVE  /\ Sent \in Nat /\ Len(received) \in Nat /\ Len(wire) \in Nat
         /\ \A s \in Streams : Len(stream[s].batch) \in Nat
BY DEF StreamInd, StreamTypeOK, Stream, Sent

\* The handler goes on with what it has: its place in the log is the same.
LEMMA MoveKeeps ==
  ASSUME StreamInd, NEW s \in Streams, NEW phase \in Phase \ {"none"},
         stream[s].phase # "none", Move(s, phase)
  PROVE  StreamInd'
<1>1. /\ stream' \in [Streams -> Stream]
      /\ \A t \in Streams : /\ stream'[t].phase = IF t = s THEN phase ELSE stream[t].phase
                            /\ stream'[t].closed = stream[t].closed
                            /\ stream'[t].batch = stream[t].batch
                            /\ stream'[t].cursor = stream[t].cursor
  BY DEF Move, StreamInd, StreamTypeOK, Stream
<1>2. UNCHANGED <<storeVars, wire, received>>
  BY DEF Move
<1>3. \A t \in Streams : /\ Opened(t)' <=> Opened(t)
                         /\ stream'[t].phase = "none" <=> stream[t].phase = "none"
  BY <1>1 DEF Opened
<1>4. UNCHANGED <<Sent, Log, JobExists(Watched)>>
  BY <1>2 DEF Sent, Log, JobExists, storeVars
<1>5. NothingSkipped' /\ StreamTypeOK'
  BY <1>1, <1>2 DEF StreamInd, NothingSkipped, StreamTypeOK, Counts
<1>6. OneConnection' /\ UnusedIsBlank'
  BY <1>1, <1>2, <1>3 DEF StreamInd, OneConnection, UnusedIsBlank
<1>7. CursorSound'
  BY <1>1, <1>3, <1>4 DEF StreamInd, CursorSound, Counts
<1> QED
  BY <1>5, <1>6, <1>7 DEF StreamInd

\* A stream behind a store that only adds to its log keeps its place.
LEMMA WorkKeeps ==
  ASSUME StreamInd, StoreTypeOK, [StoreNext]_storeVars, UNCHANGED streamVars,
         ~JobExists(Watched) /\ JobExists(Watched)' =>
           \A s \in Streams : stream[s].phase = "none"
  PROVE  StreamInd'
<1>1. UNCHANGED <<stream, wire, received, Sent>>
  BY DEF streamVars, Sent
<1>2. NothingSkipped' /\ StreamTypeOK' /\ OneConnection' /\ UnusedIsBlank'
  BY <1>1 DEF StreamInd, NothingSkipped, StreamTypeOK, OneConnection, UnusedIsBlank, Counts, Opened
<1>3. CASE JobExists(Watched) /\ JobExists(Watched)'
  <2>1. Len(Log) \in Nat /\ Len(Log') \in Nat /\ Len(Log) <= Len(Log')
    BY <1>3, WatchedLogStays
  <2>2. Sent \in Nat /\ Sent <= Len(Log)
    BY <1>3, LengthsTyped DEF StreamInd, CursorSound
  <2>3. Sent' = Sent /\ Sent' <= Len(Log')
    BY <1>1, <2>1, <2>2
  <2>4. ASSUME NEW s \in Streams, Opened(s)'
        PROVE  /\ stream'[s].cursor = Sent' /\ Counts(stream'[s].batch, Sent')
               /\ Sent' + Len(stream'[s].batch) <= Len(Log')
    <3>1. /\ stream[s].cursor = Sent /\ Counts(stream[s].batch, Sent)
          /\ Sent + Len(stream[s].batch) <= Len(Log)
      BY <1>1, <1>3, <2>4 DEF Opened, StreamInd, CursorSound
    <3>2. Len(stream[s].batch) \in Nat
      BY LengthsTyped
    <3>3. Sent + Len(stream[s].batch) <= Len(Log')
      BY <2>1, <2>2, <3>1, <3>2
    <3> QED
      BY <1>1, <2>3, <3>1, <3>3
  <2> QED
    BY <1>2, <2>3, <2>4 DEF StreamInd, CursorSound
<1>4. CASE ~JobExists(Watched)'
  BY <1>1, <1>2, <1>4 DEF StreamInd, CursorSound, Opened
<1>5. CASE ~JobExists(Watched) /\ JobExists(Watched)'
  <2>1. \A s \in Streams : ~Opened(s)
    BY <1>5 DEF Opened
  <2>2. received = <<>> /\ wire = <<>>
    BY <1>5, <2>1 DEF StreamInd, OneConnection, UnusedIsBlank
  <2>3. Sent' = 0
    BY <1>1, <2>2, CountsEmpty DEF Sent
  <2>4. Log' \in Seq(EventType)
    BY StoreStepTypeOK, StreamAssumption DEF StoreTypeOK, Log
  <2>5. Sent' <= Len(Log')
    BY <2>3, <2>4
  <2> QED
    BY <1>1, <1>2, <2>1, <2>5 DEF StreamInd, CursorSound, Opened
<1> QED
  BY <1>3, <1>4, <1>5

\* A connection that goes takes with it what the client has not read; what the
\* client has read stands.
LEMMA LossKeeps ==
  ASSUME StreamInd, StoreTypeOK, [StoreNext]_storeVars,
         JobExists(Watched)' => JobExists(Watched),
         stream' \in [Streams -> Stream],
         \A s \in Streams :
           /\ ~Opened(s)'
           /\ stream'[s].phase = "none" <=> stream[s].phase = "none"
           /\ stream'[s].phase = "none" => ~stream'[s].closed /\ stream'[s].batch = <<>>,
         wire' = <<>>, received' = received
  PROVE  StreamInd'
<1>1. Sent' = Len(received) /\ Sent' \in Nat /\ Sent' <= Sent /\ Sent \in Nat
  BY LengthsTyped, CountsEmpty DEF Sent
<1>2. JobExists(Watched)' => Sent' <= Len(Log')
  <2> SUFFICES ASSUME JobExists(Watched)' PROVE Sent' <= Len(Log')
    OBVIOUS
  <2>1. Len(Log) \in Nat /\ Len(Log') \in Nat /\ Len(Log) <= Len(Log')
    BY WatchedLogStays
  <2>2. Sent <= Len(Log)
    BY DEF StreamInd, CursorSound
  <2> QED
    BY <1>1, <2>1, <2>2
<1>3. StreamTypeOK'
  BY DEF StreamInd, StreamTypeOK
<1>4. NothingSkipped'
  BY CountsEmpty DEF StreamInd, NothingSkipped, Counts
<1>5. OneConnection'
  BY DEF OneConnection
<1>6. UnusedIsBlank'
  BY DEF StreamInd, UnusedIsBlank
<1>7. CursorSound'
  BY <1>2 DEF CursorSound
<1> QED
  BY <1>3, <1>4, <1>5, <1>6, <1>7 DEF StreamInd

LEMMA ReadKeeps ==
  ASSUME StreamInd, Read
  PROVE  StreamInd' /\ Sent' = Sent
<1> DEFINE next == Len(received) + 1
<1>1. /\ received \in Seq(Nat) /\ wire \in Seq(Nat) /\ Counts(received, 0)
      /\ Counts(wire, Len(received)) /\ wire # <<>> /\ Len(received) \in Nat
      /\ received' = Append(received, Head(wire)) /\ wire' = Tail(wire)
      /\ UNCHANGED <<storeVars, stream>>
  BY DEF StreamInd, StreamTypeOK, NothingSkipped, Read
<1>2. /\ Head(wire) = next /\ wire' \in Seq(Nat) /\ Counts(wire', next)
      /\ Len(wire) \in Nat \ {0} /\ Len(wire') = Len(wire) - 1
  BY <1>1, CountsTail
<1>3. received' = Append(received, 0 + Len(received) + 1)
  BY <1>1, <1>2
<1>4. received' \in Seq(Nat) /\ Counts(received', 0) /\ Len(received') = next
  BY <1>1, <1>3, CountsAppend
<1>5. Sent' = Sent
  BY <1>1, <1>2, <1>4 DEF Sent
<1>6. NothingSkipped' /\ StreamTypeOK'
  BY <1>1, <1>2, <1>4 DEF StreamInd, StreamTypeOK, NothingSkipped, Counts
<1>7. \E s \in Streams : Opened(s)
  BY <1>1 DEF StreamInd, OneConnection
<1>8. OneConnection' /\ UnusedIsBlank'
  BY <1>1, <1>7 DEF StreamInd, OneConnection, UnusedIsBlank, Opened
<1>9. CursorSound'
  BY <1>1, <1>5 DEF StreamInd, CursorSound, Counts, Opened, Log, JobExists, storeVars
<1> QED
  BY <1>5, <1>6, <1>8, <1>9 DEF StreamInd

\* A connection begins behind the last event the client has read.
LEMMA OpenKeeps ==
  ASSUME StreamInd, NEW s \in Streams, Open(s)
  PROVE  StreamInd'
<1>1. /\ received \in Seq(Nat) /\ Len(received) \in Nat
      /\ stream[s].phase = "none" /\ ~stream[s].closed /\ stream[s].batch = <<>>
      /\ \A t \in Streams : ~Opened(t)
      /\ JobExists(Watched)
      /\ UNCHANGED <<storeVars, wire, received>>
  BY DEF Open, MayOpen, Opened, StreamInd, StreamTypeOK, UnusedIsBlank
<1>2. wire = <<>> /\ Sent = Len(received)
  BY <1>1, CountsEmpty DEF StreamInd, OneConnection, Sent
<1>3. LastEventId = Sent
  BY <1>1, <1>2 DEF LastEventId, StreamInd, NothingSkipped, Counts
<1>4. /\ stream' \in [Streams -> Stream]
      /\ \A t \in Streams \ {s} : stream'[t] = stream[t]
      /\ stream'[s].phase = "polling" /\ stream'[s].cursor = Sent
      /\ ~stream'[s].closed /\ stream'[s].batch = <<>>
  BY <1>1, <1>2, <1>3 DEF Open, StreamInd, StreamTypeOK, Stream, Phase
<1>5. UNCHANGED <<Sent, Log, JobExists(Watched)>>
  BY <1>1 DEF Sent, Log, JobExists, storeVars
<1>6. StreamTypeOK' /\ NothingSkipped'
  BY <1>1, <1>4 DEF StreamInd, StreamTypeOK, NothingSkipped, Counts
<1>7. Opened(s)' /\ \A t \in Streams \ {s} : ~Opened(t)'
  BY <1>1, <1>4 DEF Opened
<1>8. OneConnection' /\ UnusedIsBlank'
  BY <1>1, <1>4, <1>7 DEF StreamInd, OneConnection, UnusedIsBlank
<1>9. CursorSound'
  <2>1. Sent \in Nat /\ Sent <= Len(Log) /\ Sent + Len(<<>>) = Sent
    BY <1>1, LengthsTyped, CountsEmpty DEF StreamInd, CursorSound
  <2> QED
    BY <1>4, <1>5, <1>7, <2>1, CountsEmpty DEF CursorSound
<1> QED
  BY <1>6, <1>8, <1>9 DEF StreamInd

\* A poll reads on from the cursor.
LEMMA PollKeeps ==
  ASSUME StreamInd, StoreTypeOK, NEW s \in Streams, Poll(s)
  PROVE  /\ StreamInd' /\ Sent' = Sent
         /\ NextPage(s) = <<>> => Sent = Len(Log)
<1>1. /\ Opened(s) /\ stream[s].phase = "polling" /\ JobExists(Watched)
      /\ UNCHANGED <<storeVars, wire, received>>
  BY DEF Poll, Opened
<1>2. stream[s].cursor = Sent /\ Sent \in Nat /\ Sent <= Len(Log)
  BY <1>1, LengthsTyped DEF StreamInd, CursorSound
<1>3. /\ NextPage(s) \in Seq(Nat) /\ Counts(NextPage(s), Sent)
      /\ Sent + Len(NextPage(s)) <= Len(Log)
      /\ NextPage(s) = <<>> => Sent = Len(Log)
  BY <1>2, PageSound
<1>4. /\ stream' \in [Streams -> Stream]
      /\ \A t \in Streams \ {s} : stream'[t] = stream[t]
      /\ stream'[s].phase = "writing" /\ stream'[s].cursor = stream[s].cursor
      /\ stream'[s].closed = stream[s].closed /\ stream'[s].batch = NextPage(s)
  BY <1>3 DEF Poll, StreamInd, StreamTypeOK, Stream, Phase
<1>5. UNCHANGED <<Sent, Log, JobExists(Watched)>>
  BY <1>1 DEF Sent, Log, JobExists, storeVars
<1>6. StreamTypeOK' /\ NothingSkipped'
  BY <1>1, <1>4 DEF StreamInd, StreamTypeOK, NothingSkipped, Counts
<1>7. \A t \in Streams : Opened(t)' <=> Opened(t)
  BY <1>1, <1>4 DEF Opened
<1>8. OneConnection' /\ UnusedIsBlank'
  BY <1>1, <1>4, <1>7 DEF StreamInd, OneConnection, UnusedIsBlank
<1>9. CursorSound'
  BY <1>2, <1>3, <1>4, <1>5, <1>7 DEF StreamInd, CursorSound, Counts
<1> QED
  BY <1>3, <1>5, <1>6, <1>8, <1>9 DEF StreamInd

\* A write moves the cursor and the wire together, or goes nowhere.
LEMMA WriteKeeps ==
  ASSUME StreamInd, StoreTypeOK, NEW s \in Streams, Write(s)
  PROVE  StreamInd'
<1> DEFINE batch == stream[s].batch
<1>1. /\ batch \in Seq(Nat) /\ batch # <<>> /\ stream[s].phase = "writing"
      /\ wire \in Seq(Nat) /\ received \in Seq(Nat)
      /\ Len(wire) \in Nat /\ Len(received) \in Nat /\ Sent \in Nat
      /\ UNCHANGED <<storeVars, received>>
  BY LengthsTyped DEF Write, StreamInd, StreamTypeOK, Stream
<1>2. /\ Head(batch) \in Nat /\ Tail(batch) \in Seq(Nat)
      /\ Len(batch) \in Nat \ {0} /\ Len(Tail(batch)) = Len(batch) - 1
  BY <1>1, HeadTailProperties
<1>3. /\ stream' \in [Streams -> Stream]
      /\ \A t \in Streams \ {s} : stream'[t] = stream[t]
      /\ stream'[s].phase # "none" /\ stream'[s].cursor = Head(batch)
      /\ stream'[s].closed = stream[s].closed /\ stream'[s].batch = Tail(batch)
  <2>1. PICK full \in BOOLEAN :
          stream' = [stream EXCEPT ![s].phase = IF full THEN "draining" ELSE "writing",
                                   ![s].cursor = Head(batch),
                                   ![s].batch = Tail(@)]
    BY DEF Write
  <2>2. stream \in [Streams -> Stream]
    BY DEF StreamInd, StreamTypeOK
  <2>3. \A t \in Streams \ {s} : stream'[t] = stream[t]
    BY <2>1, <2>2
  <2>4. stream'[s] = [stream[s] EXCEPT !.phase = IF full THEN "draining" ELSE "writing",
                                       !.cursor = Head(batch),
                                       !.batch = Tail(batch)]
    BY <2>1, <2>2
  <2>5. stream'[s] \in Stream
    BY <1>2, <2>2, <2>4 DEF Stream, Phase
  <2>6. stream' \in [Streams -> Stream]
    BY <2>1, <2>2, <2>3, <2>5
  <2> QED
    BY <2>2, <2>3, <2>4, <2>6 DEF Stream
<1>4. UNCHANGED <<Log, JobExists(Watched)>>
  BY <1>1 DEF Log, JobExists, storeVars
<1>5. \A t \in Streams : Opened(t)' <=> Opened(t)
  BY <1>1, <1>3 DEF Opened
<1>6. UnusedIsBlank'
  BY <1>1, <1>3 DEF StreamInd, UnusedIsBlank
<1>7. CASE stream[s].closed
  <2>1. wire' = wire /\ Sent' = Sent /\ ~Opened(s)
    BY <1>1, <1>7 DEF Write, Sent, Opened
  <2>2. StreamTypeOK' /\ NothingSkipped'
    BY <1>1, <1>3, <2>1 DEF StreamInd, StreamTypeOK, NothingSkipped, Counts
  <2>3. OneConnection'
    BY <1>5, <2>1 DEF StreamInd, OneConnection
  <2>4. CursorSound'
    BY <1>3, <1>4, <1>5, <2>1 DEF StreamInd, CursorSound, Counts
  <2> QED
    BY <1>6, <2>2, <2>3, <2>4 DEF StreamInd
<1>8. CASE ~stream[s].closed
  <2>1. Opened(s) /\ wire' = Append(wire, Head(batch))
    BY <1>1, <1>8 DEF Write, Opened
  <2>2. Counts(batch, Sent) /\ (JobExists(Watched) => Sent + Len(batch) <= Len(Log))
    BY <2>1 DEF StreamInd, CursorSound
  <2>3. Head(batch) = Sent + 1 /\ Counts(Tail(batch), Sent + 1)
    BY <1>1, <2>2, CountsTail
  <2>4. wire' = Append(wire, Len(received) + Len(wire) + 1)
    BY <2>1, <2>3 DEF Sent
  <2>5. wire' \in Seq(Nat) /\ Counts(wire', Len(received)) /\ Len(wire') = Len(wire) + 1
    BY <1>1, <2>4, CountsAppend DEF StreamInd, NothingSkipped
  <2>6. Sent' = Sent + 1
    BY <1>1, <2>5 DEF Sent
  <2>7. StreamTypeOK' /\ NothingSkipped'
    BY <1>1, <1>3, <2>5 DEF StreamInd, StreamTypeOK, NothingSkipped, Counts
  <2>8. OneConnection'
    BY <1>5, <2>1 DEF StreamInd, OneConnection
  <2>9. \A t \in Streams : Opened(t)' => t = s
    BY <1>5, <2>1 DEF StreamInd, OneConnection
  <2>10. JobExists(Watched)' =>
           Sent' + Len(Tail(batch)) <= Len(Log') /\ Sent' <= Len(Log')
    <3> SUFFICES ASSUME JobExists(Watched)'
                 PROVE  Sent' + Len(Tail(batch)) <= Len(Log') /\ Sent' <= Len(Log')
      OBVIOUS
    <3>1. Log' = Log /\ Sent + Len(batch) <= Len(Log)
      BY <1>4, <2>2
    <3>2. PICK n \in Nat \ {0} : n = Len(batch) /\ n - 1 = Len(Tail(batch))
      BY <1>2
    <3>3. Sent' + (n - 1) = Sent + n /\ Sent' <= Sent + n
      BY <1>1, <2>6
    <3>4. Len(Log) \in Nat /\ Sent' \in Nat
      BY <1>1, <2>6, StreamAssumption DEF StoreTypeOK, Log
    <3>5. Sent' <= Len(Log) /\ Sent' + (n - 1) <= Len(Log)
      BY <1>1, <3>1, <3>2, <3>3, <3>4
    <3> QED
      BY <3>1, <3>2, <3>5
  <2>11. Counts(Tail(batch), Sent') /\ Head(batch) = Sent'
    BY <2>3, <2>6
  <2>12. CursorSound'
    BY <1>3, <2>9, <2>10, <2>11 DEF CursorSound
  <2> QED
    BY <1>6, <2>7, <2>8, <2>12 DEF StreamInd
<1> QED
  BY <1>7, <1>8

\* Of the jobs a restart makes none.
LEMMA RestartMakesNoJob ==
  ASSUME StoreTypeOK, RecoverInterruptedJobs, JobExists(Watched)'
  PROVE  JobExists(Watched)
BY RecoveredRow, StreamAssumption DEF JobExists, Rewritten, EndsCancelled, IsRunning

LEMMA StreamStep ==
  ASSUME StreamInd, StoreTypeOK, [Next]_vars
  PROVE  StreamInd'
<1>0. [StoreNext]_storeVars
  BY StreamCallsAreAllowed
<1>1. CASE Work
  BY <1>0, <1>1, WorkKeeps DEF Work
<1>2. CASE Restart
  <2>1. /\ stream' \in [Streams -> Stream]
        /\ \A s \in Streams :
             IF stream[s].phase = "none" THEN stream'[s] = stream[s]
             ELSE stream'[s].phase = "ended" /\ stream'[s].closed
    BY <1>2 DEF Restart, StreamInd, StreamTypeOK, Stream, Phase
  <2>2. JobExists(Watched)' => JobExists(Watched)
    BY <1>2, RestartMakesNoJob DEF Restart
  <2>3. wire' = <<>> /\ received' = received
    BY <1>2 DEF Restart
  <2> QED
    BY <1>0, <2>1, <2>2, <2>3, LossKeeps DEF Opened, StreamInd, UnusedIsBlank
<1>3. CASE Read
  BY <1>3, ReadKeeps
<1>4. ASSUME NEW s \in Streams, Open(s) PROVE StreamInd'
  BY <1>4, OpenKeeps
<1>5. ASSUME NEW s \in Streams, Disconnect(s) PROVE StreamInd'
  <2>1. /\ stream' \in [Streams -> Stream]
        /\ \A t \in Streams \ {s} : stream'[t] = stream[t]
        /\ stream'[s].phase = stream[s].phase /\ stream'[s].closed
    BY <1>5 DEF Disconnect, StreamInd, StreamTypeOK, Stream
  <2>2. Opened(s) /\ wire' = <<>> /\ UNCHANGED <<storeVars, received>>
    BY <1>5 DEF Disconnect, Opened
  <2>3. \A t \in Streams \ {s} : ~Opened(t)
    BY <2>2 DEF StreamInd, OneConnection
  <2>4. JobExists(Watched)' => JobExists(Watched)
    BY <2>2 DEF JobExists, storeVars
  <2> QED
    BY <1>0, <2>1, <2>2, <2>3, <2>4, LossKeeps DEF Opened, StreamInd, UnusedIsBlank
<1>6. ASSUME NEW s \in Streams, Handler(s) PROVE StreamInd'
  <2>1. CASE Leave(s)
    BY <2>1, MoveKeeps DEF Leave, Phase
  <2>2. CASE Poll(s)
    BY <2>2, PollKeeps
  <2>3. CASE ReadFails(s)
    BY <2>3, MoveKeeps DEF ReadFails, Phase
  <2>4. CASE Write(s)
    BY <2>4, WriteKeeps
  <2>5. CASE Drained(s)
    BY <2>5, MoveKeeps DEF Drained, Phase
  <2>6. CASE Check(s)
    BY <2>6, MoveKeeps DEF Check, Phase
  <2> QED
    BY <1>6, <2>1, <2>2, <2>3, <2>4, <2>5, <2>6 DEF Handler
<1>7. CASE UNCHANGED vars
  <2>1. UNCHANGED streamVars /\ UNCHANGED storeVars
    BY <1>7 DEF vars
  <2>2. JobExists(Watched)' => JobExists(Watched)
    BY <2>1 DEF JobExists, storeVars
  <2> QED
    BY <1>0, <2>1, <2>2, WorkKeeps
<1> QED
  BY <1>1, <1>2, <1>3, <1>4, <1>5, <1>6, <1>7 DEF Next

LEMMA StreamInvariant == Spec => [](StreamInd /\ StoreTypeOK)
<1>1. Init => StreamInd /\ StoreTypeOK
  BY InitSound, StoreInitTypeOK DEF Init
<1>2. (StreamInd /\ StoreTypeOK) /\ [Next]_vars => (StreamInd /\ StoreTypeOK)'
  BY StreamStep, StreamCallsAreAllowed, StoreStepTypeOK
<1> QED
  BY <1>1, <1>2, PTL DEF Spec

\* Whatever is lost with a connection, the client reads every event once and in
\* order, and never one the log does not hold: also when commits come between the
\* reads of a poll.
THEOREM NothingMissed == Spec => []NoGapNoRepeat
<1>1. StreamInd /\ StoreTypeOK => NoGapNoRepeat
  <2> SUFFICES ASSUME StreamInd PROVE NoGapNoRepeat
    OBVIOUS
  <2>1. \A i \in DOMAIN received : received[i] = i
    BY DEF StreamInd, StreamTypeOK, NothingSkipped, Counts
  <2> QED
    BY <2>1 DEF StreamInd, NothingSkipped, Counts, CursorSound, Sent, NoGapNoRepeat
<1> QED
  BY <1>1, StreamInvariant, PTL

-----------------------------------------------------------------------------
(* The end of a response *)

EndOf(s) ==
  /\ stream[s].batch # <<>> \/ stream[s].phase = "draining" => stream[s].found
  /\ Opened(s) /\ stream[s].phase = "writing" /\ ~stream[s].found /\ JobExists(Watched) =>
       Sent = Len(Log)
  /\ Opened(s) /\ stream[s].phase = "ended" /\ JobExists(Watched) =>
       IsTerminal(Watched) /\ Sent = Len(Log)

LEMMA EndByStream ==
  /\ EndInd <=> \A s \in Streams : EndOf(s)
  /\ EndInd' <=> \A s \in Streams : EndOf(s)'
BY DEF EndInd, EndOf, FoundSound, EmptyIsCurrent, EndsComplete, Opened, Sent

\* What one connection does leaves the others alone: they are closed.
LEMMA OthersEndAsBefore ==
  ASSUME StreamInd, NEW s \in Streams, NEW t \in Streams \ {s}, EndOf(t),
         Opened(s) \/ Sent' = Sent, stream'[t] = stream[t], UNCHANGED storeVars
  PROVE  EndOf(t)'
<1>1. UNCHANGED <<Log, JobExists(Watched), IsTerminal(Watched)>>
  BY DEF Log, JobExists, IsTerminal, storeVars
<1>2. Opened(t)' <=> Opened(t)
  BY DEF Opened
<1>3. ~Opened(t) \/ Sent' = Sent
  BY DEF StreamInd, OneConnection
<1> QED
  BY <1>1, <1>2, <1>3 DEF EndOf

\* When nothing commits between the two reads of a poll, a handler that ends the
\* response has seen the whole log.
LEMMA EndStep ==
  ASSUME ~ReadsYield, StreamInd, StreamInd', StoreTypeOK, EventLogMatches, EventLogMatches',
         EndInd, [Next]_vars
  PROVE  EndInd'
<1>0. [StoreNext]_storeVars
  BY StreamCallsAreAllowed
<1>1. CASE Work
  <2>1. UNCHANGED <<stream, wire, received, Sent>>
    BY <1>1 DEF Work, streamVars, Sent
  <2>2. FoundSound'
    BY <2>1 DEF EndInd, FoundSound
  <2>3. EmptyIsCurrent'
    BY <1>1, <2>1 DEF Work, MayInterleave, EmptyIsCurrent
  <2>4. EndsComplete'
    <3> SUFFICES ASSUME NEW s \in Streams, stream'[s].phase = "ended", ~stream'[s].closed,
                        JobExists(Watched)'
                 PROVE  IsTerminal(Watched)' /\ Sent' = Len(Log')
      BY DEF EndsComplete, Sent
    <3>1. stream[s].phase = "ended" /\ ~stream[s].closed
      BY <2>1
    <3>2. JobExists(Watched)
      BY <1>1, <3>1 DEF Work
    <3>3. IsTerminal(Watched) /\ Sent = Len(Log)
      BY <3>1, <3>2 DEF EndInd, EndsComplete, Sent
    <3>4. IsTerminal(Watched)' /\ Log' = Log
      BY <1>0, <3>3, WatchedEndStays
    <3> QED
      BY <2>1, <3>3, <3>4
  <2> QED
    BY <2>2, <2>3, <2>4 DEF EndInd
<1>2. CASE Restart
  <2>1. \A s \in Streams :
          IF stream[s].phase = "none" THEN stream'[s] = stream[s]
          ELSE /\ stream'[s].phase = "ended" /\ stream'[s].closed
               /\ stream'[s].batch = stream[s].batch /\ stream'[s].found = stream[s].found
    BY <1>2 DEF Restart, StreamInd, StreamTypeOK, Stream
  <2>2. \A s \in Streams : EndOf(s)'
    BY <2>1, EndByStream DEF EndOf, Opened
  <2> QED
    BY <2>2, EndByStream
<1>3. CASE Read
  <2>1. UNCHANGED <<stream, Sent, Log, JobExists(Watched), IsTerminal(Watched)>>
    BY <1>3, ReadKeeps DEF Read, Log, JobExists, IsTerminal, storeVars
  <2>2. \A s \in Streams : EndOf(s)'
    BY <2>1, EndByStream DEF EndOf, Opened
  <2> QED
    BY <2>2, EndByStream
<1>4. ASSUME NEW s \in Streams, Open(s) \/ Disconnect(s) \/ Handler(s)
      PROVE  EndInd'
  <2>0. /\ UNCHANGED storeVars
        /\ EndOf(s) /\ \A t \in Streams \ {s} : EndOf(t)
        /\ UNCHANGED <<Log, JobExists(Watched), IsTerminal(Watched)>>
    <3>1. UNCHANGED storeVars
      BY <1>4 DEF Open, Disconnect, Handler, Leave, Poll, ReadFails, Write, Drained, Check, Move
    <3> QED
      BY <3>1, EndByStream DEF Log, JobExists, IsTerminal, storeVars
  <2>1. \A t \in Streams \ {s} : stream'[t] = stream[t]
    BY <1>4 DEF Open, Disconnect, Handler, Leave, Poll, ReadFails, Write, Drained, Check, Move,
       StreamInd, StreamTypeOK
  <2>2. ASSUME EndOf(s)', Opened(s) \/ Sent' = Sent PROVE EndInd'
    <3>1. \A t \in Streams \ {s} : EndOf(t)'
      BY <2>0, <2>1, <2>2, OthersEndAsBefore
    <3> QED
      BY <2>2, <3>1, EndByStream
  <2>3. stream \in [Streams -> Stream]
    BY DEF StreamInd, StreamTypeOK
  <2>4. CASE Open(s)
    <3>1. \A t \in Streams : ~Opened(t)
      BY <2>4 DEF Open, MayOpen, Opened
    <3>2. /\ stream[s].batch = <<>> /\ stream'[s].batch = stream[s].batch
          /\ stream'[s].phase = "polling"
      BY <2>3, <2>4 DEF Open, MayOpen, StreamInd, UnusedIsBlank, Stream
    <3>3. EndOf(s)'
      BY <3>2 DEF EndOf
    <3>4. UNCHANGED Sent
      BY <2>4 DEF Open, Sent
    <3> QED
      BY <2>2, <3>3, <3>4
  <2>5. CASE Disconnect(s)
    <3>1. /\ stream'[s].closed /\ stream'[s].phase = stream[s].phase
          /\ stream'[s].batch = stream[s].batch /\ stream'[s].found = stream[s].found
      BY <2>3, <2>5 DEF Disconnect, Stream
    <3>2. EndOf(s)'
      BY <2>0, <3>1 DEF EndOf, Opened
    <3> QED
      BY <2>2, <2>5, <3>2 DEF Disconnect, Opened
  <2>6. ASSUME NEW phase \in Phase, Move(s, phase)
        PROVE  /\ UNCHANGED Sent
               /\ stream'[s].phase = phase /\ stream'[s].closed = stream[s].closed
               /\ stream'[s].batch = stream[s].batch /\ stream'[s].found = stream[s].found
    BY <2>3, <2>6 DEF Move, Sent, Stream
  <2>7. CASE Leave(s)
    <3>1. EndOf(s)' /\ UNCHANGED Sent
      BY <2>0, <2>6, <2>7 DEF Leave, EndOf, Opened, Phase
    <3> QED
      BY <2>2, <3>1
  <2>8. CASE ReadFails(s)
    <3>1. EndOf(s)' /\ UNCHANGED Sent
      BY <2>0, <2>6, <2>8 DEF ReadFails, EndOf, Phase
    <3> QED
      BY <2>2, <3>1
  <2>9. CASE Drained(s)
    <3>1. stream[s].phase = "draining" /\ Move(s, "writing")
      BY <2>9 DEF Drained
    <3>2. EndOf(s)' /\ UNCHANGED Sent
      BY <2>0, <2>6, <3>1 DEF EndOf, Phase
    <3> QED
      BY <2>2, <3>2
  <2>10. CASE Check(s)
    <3>1. /\ stream[s].phase = "writing" /\ stream[s].batch = <<>> /\ JobExists(Watched)
          /\ \/ Move(s, "ended") /\ IsTerminal(Watched) /\ ~stream[s].found
             \/ Move(s, "polling")
      BY <2>10 DEF Check, IsOver
    <3>2. CASE Move(s, "ended") /\ IsTerminal(Watched) /\ ~stream[s].found
      <4>1. /\ UNCHANGED Sent /\ stream'[s].phase = "ended"
            /\ stream'[s].closed = stream[s].closed
            /\ stream'[s].batch = <<>>
        BY <2>6, <3>1, <3>2 DEF Phase
      <4>2. Opened(s) => Sent = Len(Log)
        BY <2>0, <3>1, <3>2 DEF EndOf
      <4>3. Opened(s)' => Opened(s)
        BY <3>1, <4>1 DEF Opened
      <4>4. EndOf(s)'
        BY <2>0, <3>2, <4>1, <4>2, <4>3 DEF EndOf
      <4> QED
        BY <2>2, <4>1, <4>4
    <3>3. CASE Move(s, "polling")
      <4>1. EndOf(s)' /\ UNCHANGED Sent
        BY <2>0, <2>6, <3>3, <3>1 DEF EndOf, Phase
      <4> QED
        BY <2>2, <4>1
    <3> QED
      BY <3>1, <3>2, <3>3
  <2>11. CASE Poll(s)
    <3>1. UNCHANGED Sent /\ (NextPage(s) = <<>> => Sent = Len(Log))
      BY <2>11, PollKeeps
    <3>2. /\ stream'[s].phase = "writing" /\ stream'[s].batch = NextPage(s)
          /\ stream'[s].found = (NextPage(s) # <<>>)
      BY <2>3, <2>11 DEF Poll, Stream
    <3>3. EndOf(s)'
      BY <2>0, <3>1, <3>2 DEF EndOf
    <3> QED
      BY <2>2, <3>1, <3>3
  <2>12. CASE Write(s)
    <3>1. /\ stream[s].found /\ stream[s].phase = "writing"
          /\ stream[s].closed => UNCHANGED Sent
      BY <2>0, <2>12 DEF Write, EndOf, Sent
    <3>2. stream'[s].found = stream[s].found /\ stream'[s].phase \in {"writing", "draining"}
      BY <2>3, <2>12 DEF Write, Stream
    <3>3. EndOf(s)'
      BY <3>1, <3>2 DEF EndOf
    <3> QED
      BY <2>2, <3>1, <3>3 DEF Opened
  <2> QED
    BY <1>4, <2>4, <2>5, <2>7, <2>8, <2>9, <2>10, <2>11, <2>12 DEF Handler
<1>5. CASE UNCHANGED vars
  <2>1. /\ UNCHANGED <<stream, wire, received>>
        /\ UNCHANGED <<Log, JobExists(Watched), IsTerminal(Watched)>>
    BY <1>5 DEF vars, streamVars, storeVars, Log, JobExists, IsTerminal
  <2>2. UNCHANGED Sent
    BY <2>1 DEF Sent
  <2>3. \A s \in Streams : EndOf(s)'
    BY <2>1, <2>2, EndByStream DEF EndOf, Opened
  <2> QED
    BY <2>3, EndByStream
<1> QED
  BY <1>1, <1>2, <1>3, <1>4, <1>5 DEF Next

\* The variables are typed, the client misses nothing and reads nothing twice, and a
\* response the gateway ends has carried the whole log.  The last of these needs the
\* two reads of a poll to see one state of the database.
THEOREM StreamCorrect == ~ReadsYield => (Spec => []StreamInv)
<1> SUFFICES ASSUME ~ReadsYield PROVE Spec => []StreamInv
  OBVIOUS
<1>1. Init => EndInd
  BY InitSound
<1>2. /\ StreamInd /\ StreamInd' /\ StoreTypeOK /\ EventLogMatches /\ EventLogMatches'
      /\ EndInd /\ [Next]_vars
      => EndInd'
  BY EndStep
<1>3. StreamInd /\ EndInd /\ NoGapNoRepeat => StreamInv
  BY DEF StreamInd, EndInd, StreamInv
<1> QED
  BY <1>1, <1>2, <1>3, StreamInvariant, NothingMissed, StreamImplementsStore, LogsTruthful, PTL
  DEF Spec

-----------------------------------------------------------------------------
(* McpAdapter: the inductive invariant *)

\* The i-th of the tokens that are still to be cut into frames.
Unread(i) == IF i <= Len(io.buffer) THEN io.buffer[i] ELSE io.pipe[i - Len(io.buffer)]

\* Of the frames that were written, in this order: so many are dealt with, the next
\* ones are those of the chunk in hand, and of the others every token is to be read.
InRow(done) ==
  LET next == done + Len(io.todo)
      rest == Len(io.wrote) - next
  IN
  /\ \A i \in 1 .. Len(io.todo) : io.todo[i] = io.wrote[done + i]
  /\ Len(io.buffer) + Len(io.pipe) = 2 * rest
  /\ \A k \in 1 .. rest :
       /\ Unread(2 * k - 1) = [of |-> io.wrote[next + k], part |-> "head"]
       /\ Unread(2 * k) = [of |-> io.wrote[next + k], part |-> "body"]

\* No frame is written twice, and the first of them are dealt with.
DealtWith(done) ==
  /\ \A i, k \in DOMAIN io.wrote : io.wrote[i] = io.wrote[k] => i = k
  /\ \A i \in DOMAIN io.wrote :
       call[io.wrote[i]].at = IF i <= done THEN "done" ELSE "sent"

\* Those of them that ask for it have their answers.
Answers(done) ==
  /\ \A m, n \in DOMAIN io.out : m < n => Before(io.out[m], io.out[n])
  /\ \A r \in Calls :
       HasAnswer(r) <=> call[r].kind # "silent" /\ \E i \in 1 .. done : io.wrote[i] = r

FramesSound == \E done \in Nat : InRow(done) /\ DealtWith(done) /\ Answers(done)

\* The tool that is at work is that of the frame whose turn it is, and knows its job
\* once it reads it; what it has read stays true.
ToolSound ==
  tool.at # "none" =>
    /\ io.todo # <<>>
    /\ LET q == call[Head(io.todo)] IN
       /\ q.kind \in {"run", "get"}
       /\ IF tool.at = "posting" THEN q.kind = "run" ELSE q.job \in JobIds
       /\ tool.at = "deciding" =>
            /\ tool.view # "none"
            /\ tool.view \in TerminalStatus /\ JobExists(q.job) =>
                 jobs[q.job].status = tool.view

InHand(r) == tool.at # "none" /\ Turn(r)

\* A call has a job by its POST, or by its arguments; the POST is made once and is
\* answered once, and the job is what the key of the call stands for.
CallSound(r) ==
  LET q == call[r] IN
  /\ q.kind = "run" => q.key \in Keys
  /\ q.kind = "get" => q.job \in JobIds
  /\ q.at = "sent" => q.answer = "none"
  /\ q.kind = "run" /\ q.at = "sent" /\ ~InHand(r) => q.job = NoJob /\ r \notin posts
  /\ r \in posts =>
       /\ q.kind = "run" /\ q.at # "unsent"
       /\ q.job = NoJob /\ q.answer \in {"none", "error"}

\* What a call was told is true of its job, while it exists.
CallTold(r) ==
  LET q == call[r] IN
  /\ q.answer \notin {"none", "plain", "error"} => q.job \in JobIds
  /\ q.job \in JobIds /\ JobExists(q.job) =>
       /\ q.answer \in TerminalStatus => jobs[q.job].status = q.answer
       /\ q.kind = "run" => idempotency[<<Client, q.key>>] = q.job

McpInd ==
  /\ McpTypeOK
  /\ FramesSound
  /\ ToolSound
  /\ \A r \in Calls : CallSound(r) /\ CallTold(r)

StoreSound == StoreTypeOK /\ StoreInv /\ EventLogMatches

-----------------------------------------------------------------------------
(* McpAdapter: the gateway beside it *)

\* What holds of a job after a step held before, when nothing was submitted.
Stays(j) ==
  JobExists(j)' =>
    /\ JobExists(j)
    /\ IsTerminal(j) => jobs'[j].status = jobs[j].status
    /\ \A k \in Keys : idempotency[<<Client, k>>] = j => idempotency'[<<Client, k>>] = j

Unsubmitted ==
  \/ \E i \in JobIds : ClaimNextJob(i) \/ RequestCancellation(i) \/ RunCall(i)
  \/ RecoverInterruptedJobs \/ PruneExpired \/ Tick \/ UNCHANGED storeVars

LEMMA JobsStay ==
  ASSUME StoreSound, Unsubmitted, NEW j \in JobIds
  PROVE  Stays(j)
<1> SUFFICES ASSUME JobExists(j)' PROVE Stays(j)
  BY DEF Stays
<1>1. [GatewayNext]_storeVars /\ [StoreNext]_storeVars
  BY DEF Unsubmitted, StoreNext, GatewayNext
<1>2. JobExists(j)
  BY NoneAppears DEF StoreSound, Unsubmitted
<1>3. IsTerminal(j) => jobs'[j] = jobs[j]
  BY <1>1, <1>2, JobGoesOn DEF StoreSound
<1>4. ASSUME NEW k \in Keys, idempotency[<<Client, k>>] = j
      PROVE  idempotency'[<<Client, k>>] = j
  <2>1. <<Client, k>> \in Owners \X Keys
    BY CallsAssumption
  <2> QED
    BY <1>1, <1>4, <2>1, KeyStays DEF StoreSound
<1> QED
  BY <1>2, <1>3, <1>4 DEF Stays

\* A call keeps what it was told, if its job stays.
LEMMA TellingStays ==
  ASSUME McpInd, NEW r \in Calls, call[r].job \in JobIds => Stays(call[r].job),
         call'[r].kind = call[r].kind, call'[r].key = call[r].key,
         call'[r].job = call[r].job, call'[r].answer = call[r].answer
  PROVE  CallTold(r)'
<1>1. CallSound(r) /\ CallTold(r)
  BY DEF McpInd
<1>2. CASE call[r].job \in JobIds
  <2>1. PICK j \in JobIds : j = call[r].job
    BY <1>2
  <2>2. JobExists(call[r].job)' => JobExists(j)'
    BY <2>1 DEF JobExists
  <2> QED
    BY <1>1, <2>1, <2>2 DEF CallSound, CallTold, Stays, JobExists, IsTerminal
<1>3. CASE call[r].job \notin JobIds
  BY <1>1, <1>3 DEF CallTold
<1> QED
  BY <1>2, <1>3

\* So does the tool at work, if it goes on.
LEMMA ReadingStays ==
  ASSUME McpInd, UNCHANGED <<io, call>>,
         io.todo # <<>> /\ call[Head(io.todo)].job \in JobIds => Stays(call[Head(io.todo)].job),
         tool'.at = tool.at, tool'.view = tool.view
  PROVE  ToolSound'
<1> SUFFICES ASSUME tool.at # "none" PROVE ToolSound'
  BY DEF ToolSound
<1> DEFINE q == call[Head(io.todo)]
<1>1. /\ io.todo # <<>> /\ q.kind \in {"run", "get"}
      /\ IF tool.at = "posting" THEN q.kind = "run" ELSE q.job \in JobIds
      /\ tool.at = "deciding" =>
           /\ tool.view # "none"
           /\ tool.view \in TerminalStatus /\ JobExists(q.job) => jobs[q.job].status = tool.view
  BY DEF McpInd, ToolSound
<1>2. UNCHANGED q
  OBVIOUS
<1>3. ASSUME tool.at = "deciding", tool.view \in TerminalStatus, jobs'[q.job].status # "absent"
      PROVE  jobs'[q.job].status = tool.view
  <2>1. PICK j \in JobIds : j = q.job
    BY <1>1, <1>3
  <2> QED
    BY <1>1, <1>3, <2>1 DEF Stays, JobExists, IsTerminal
<1> QED
  BY <1>1, <1>2, <1>3 DEF ToolSound, JobExists

\* Frames know nothing of jobs.
LEMMA FramesStay ==
  ASSUME McpTypeOK, FramesSound, UNCHANGED io,
         \A r \in Calls : call'[r].at = call[r].at /\ call'[r].kind = call[r].kind
  PROVE  FramesSound'
<1>1. PICK done \in Nat : InRow(done) /\ DealtWith(done) /\ Answers(done)
  BY DEF FramesSound
<1>2. InRow(done)'
  BY <1>1 DEF InRow, Unread
<1>3. DealtWith(done)'
  <2>1. \A i \in DOMAIN io.wrote : io.wrote[i] \in Calls
    BY DEF McpTypeOK, Io
  <2> QED
    BY <1>1, <2>1 DEF DealtWith
<1>4. Answers(done)'
  BY <1>1 DEF Answers, HasAnswer, Before
<1> QED
  BY <1>1, <1>2, <1>3, <1>4 DEF FramesSound

\* The frame whose turn it is comes next to those that are dealt with.
LEMMA HeadIsNext ==
  ASSUME McpTypeOK, NEW done \in Nat, InRow(done), DealtWith(done), io.todo # <<>>
  PROVE  /\ done + 1 \in DOMAIN io.wrote
         /\ io.wrote[done + 1] = Head(io.todo)
         /\ Head(io.todo) \in Calls
         /\ call[Head(io.todo)].at = "sent"
<1> DEFINE todo == io.todo wrote == io.wrote
<1>1. /\ todo \in Seq(Calls) /\ wrote \in Seq(Calls)
      /\ io.buffer \in Seq(Token) /\ io.pipe \in Seq(Token)
  BY DEF McpTypeOK, Io
<1>2. Len(todo) \in Nat \ {0} /\ Head(todo) = todo[1] /\ Head(todo) \in Calls
  BY <1>1
<1>3. Len(io.buffer) \in Nat /\ Len(io.pipe) \in Nat
  BY <1>1
<1>4. done + Len(todo) <= Len(wrote)
  <2>1. Len(io.buffer) + Len(io.pipe) = 2 * (Len(wrote) - (done + Len(todo)))
    BY DEF InRow
  <2>2. Len(wrote) \in Nat /\ Len(todo) \in Nat
    BY <1>1
  <2>3. ASSUME NEW a \in Nat, NEW b \in Nat, NEW c \in Nat, NEW d \in Nat,
               a + b = 2 * (c - (done + d))
        PROVE  done + d <= c
    BY <2>3
  <2> HIDE DEF todo, wrote
  <2> QED
    BY <1>3, <2>1, <2>2, <2>3
<1>5. done + 1 \in DOMAIN wrote
  BY <1>1, <1>2, <1>4
<1>6. wrote[done + 1] = todo[1]
  BY <1>2 DEF InRow
<1> QED
  BY <1>2, <1>5, <1>6 DEF DealtWith

LEMMA HeadIsSent ==
  ASSUME McpTypeOK, FramesSound, io.todo # <<>>
  PROVE  Head(io.todo) \in Calls /\ call[Head(io.todo)].at = "sent"
BY HeadIsNext DEF FramesSound

-----------------------------------------------------------------------------
(* McpAdapter: the steps *)

\* The gateway works, sweeps, or starts again.
LEMMA GatewayKeeps ==
  ASSUME McpInd, StoreSound, GatewayWorks \/ GatewayRestarts
  PROVE  McpInd'
<1>1. /\ Unsubmitted /\ UNCHANGED <<call, io, tool>> /\ posts' \subseteq posts
  BY DEF GatewayWorks, GatewayRestarts, Unsubmitted
<1>2. \A j \in JobIds : Stays(j)
  BY <1>1, JobsStay
<1>3. McpTypeOK'
  BY <1>1 DEF McpInd, McpTypeOK
<1>4. FramesSound'
  BY <1>1, FramesStay DEF McpInd
<1>5. ToolSound'
  BY <1>1, <1>2, ReadingStays
<1>6. ASSUME NEW r \in Calls PROVE CallSound(r)' /\ CallTold(r)'
  <2>1. CallSound(r)'
    BY <1>1 DEF McpInd, CallSound, InHand, Turn
  <2>2. CallTold(r)'
    BY <1>1, <1>2, TellingStays
  <2> QED
    BY <2>1, <2>2
<1> QED
  BY <1>3, <1>4, <1>5, <1>6 DEF McpInd

\* While the adapter and its client are at work the jobs stay as they are.
LEMMA StoreRests ==
  ASSUME StoreSound, UNCHANGED storeVars
  PROVE  \A j \in JobIds : Stays(j)
BY JobsStay DEF Unsubmitted

\* The tool goes from one await to the next.
LEMMA ToolMoves ==
  ASSUME McpInd, StoreSound, UNCHANGED <<storeVars, call, io>>, NEW r \in Calls, Turn(r),
         call[r].kind \in {"run", "get"}, tool' \in Tool, tool'.at # "none",
         \/ posts' = posts
         \/ posts' = posts \cup {r} /\ tool.at = "none" /\ tool'.at = "posting",
         tool'.at = "posting" => call[r].kind = "run",
         tool'.at # "posting" => call[r].job \in JobIds,
         tool'.at = "deciding" =>
           \/ tool.at = "deciding" /\ tool'.view = tool.view
           \/ JobExists(call[r].job) /\ tool'.view = jobs[call[r].job].status
  PROVE  McpInd'
<1>1. /\ McpTypeOK /\ FramesSound /\ ToolSound
      /\ \A p \in Calls : CallSound(p) /\ CallTold(p)
  BY DEF McpInd
<1>2. McpTypeOK'
  BY <1>1 DEF McpTypeOK
<1>3. FramesSound'
  BY <1>1, FramesStay
<1>4. io.todo # <<>> /\ Head(io.todo) = r
  BY DEF Turn
<1>5. ToolSound'
  <2>1. ASSUME tool'.at = "deciding"
        PROVE  /\ tool'.view # "none"
               /\ tool'.view \in TerminalStatus /\ JobExists(call[r].job) =>
                    jobs[call[r].job].status = tool'.view
    <3>1. CASE tool.at = "deciding" /\ tool'.view = tool.view
      BY <1>1, <1>4, <3>1 DEF ToolSound
    <3>2. CASE JobExists(call[r].job) /\ tool'.view = jobs[call[r].job].status
      <4>1. PICK j \in JobIds : j = call[r].job
        BY <2>1
      <4>2. jobs[j].status # "none"
        BY <4>1 DEF StoreSound, StoreTypeOK, JobRow, ActiveStatus, TerminalStatus
      <4> QED
        BY <3>2, <4>1, <4>2
    <3> QED
      BY <2>1, <3>1, <3>2
  <2> QED
    BY <1>4, <2>1 DEF ToolSound, JobExists, storeVars
<1>6. ASSUME NEW p \in Calls PROVE CallSound(p)'
  <2>1. CASE p = r
    <3>1. CASE posts' = posts
      BY <1>1, <1>4, <2>1, <3>1 DEF CallSound, InHand, Turn
    <3>2. CASE posts' = posts \cup {r} /\ tool.at = "none" /\ tool'.at = "posting"
      <4>1. call[r].at = "sent"
        BY <1>1, <1>4, HeadIsSent
      <4> QED
        BY <1>1, <1>4, <2>1, <3>2, <4>1 DEF CallSound, InHand, Turn
    <3> QED
      BY <3>1, <3>2
  <2>2. CASE p # r
    BY <1>1, <1>4, <2>2 DEF CallSound, InHand, Turn
  <2> QED
    BY <2>1, <2>2
<1>7. ASSUME NEW p \in Calls PROVE CallTold(p)'
  BY StoreRests, TellingStays
<1> QED
  BY <1>2, <1>3, <1>5, <1>6, <1>7 DEF McpInd

\* A frame is dealt with: the next one comes to its turn.
NextTurn(r, answered) ==
  /\ Turn(r)
  /\ io' = [io EXCEPT !.todo = Tail(@),
                      !.out = IF answered THEN Append(@, r) ELSE @]
  /\ call'[r].at = "done"
  /\ \A p \in Calls : p # r => call'[p] = call[p]
  /\ call'[r].kind = call[r].kind

LEMMA TurnPasses ==
  ASSUME McpTypeOK, FramesSound, NEW r \in Calls, NEW answered \in BOOLEAN,
         NextTurn(r, answered), answered <=> call[r].kind # "silent"
  PROVE  io' \in Io /\ FramesSound'
<1>1. PICK done \in Nat : InRow(done) /\ DealtWith(done) /\ Answers(done)
  BY DEF FramesSound
<1>2. /\ io.todo \in Seq(Calls) /\ io.out \in Seq(Calls) /\ io.wrote \in Seq(Calls)
      /\ io.todo # <<>> /\ Head(io.todo) = r
      /\ io \in Io
  BY DEF McpTypeOK, Io, NextTurn, Turn
<1> DEFINE tail == Tail(io.todo)
           out == IF answered THEN Append(io.out, r) ELSE io.out
<1>3. /\ tail \in Seq(Calls) /\ Len(tail) = Len(io.todo) - 1
      /\ Len(io.todo) \in Nat /\ Len(tail) \in Nat
  BY <1>2, HeadTailProperties
<1>10. \A i \in 1 .. Len(tail) : tail[i] = io.todo[i + 1]
  BY <1>2, HeadTailProperties
<1>4. /\ out \in Seq(Calls)
      /\ DOMAIN out = IF answered THEN 1 .. Len(io.out) + 1 ELSE DOMAIN io.out
      /\ \A n \in DOMAIN io.out : out[n] = io.out[n]
      /\ answered => out[Len(io.out) + 1] = r
      /\ DOMAIN io.out = 1 .. Len(io.out) /\ Len(io.out) \in Nat
  BY <1>2, AppendProperties
<1>5. /\ io'.todo = tail /\ io'.out = out
      /\ io'.pipe = io.pipe /\ io'.buffer = io.buffer /\ io'.wrote = io.wrote
      /\ io' \in Io
  <2> HIDE DEF tail
  <2>1. io' = [io EXCEPT !.todo = tail, !.out = out]
    BY DEF NextTurn, tail
  <2> HIDE DEF out
  <2> QED
    BY <1>2, <1>3, <1>4, <2>1 DEF Io
<1>6. /\ done + 1 \in DOMAIN io.wrote /\ io.wrote[done + 1] = r
      /\ call[r].at = "sent"
      /\ \A i \in DOMAIN io.wrote : io.wrote[i] \in Calls
      /\ DOMAIN io.wrote = 1 .. Len(io.wrote) /\ Len(io.wrote) \in Nat
  BY <1>1, <1>2, HeadIsNext
<1> HIDE DEF tail, out
<1>7. InRow(done + 1)'
  <2> DEFINE next == done + Len(io.todo)
             rest == Len(io.wrote) - next
  <2>1. done + 1 + Len(tail) = next
    <3>1. Len(tail) = Len(io.todo) - 1 /\ Len(io.todo) \in Nat /\ Len(tail) \in Nat
      BY <1>3
    <3>2. ASSUME NEW a \in Nat, NEW b \in Nat, b = a - 1
          PROVE  done + 1 + b = done + a
      BY <3>2
    <3> QED
      BY <3>1, <3>2
  <2>2. \A i : Unread(i)' = Unread(i)
    BY <1>5 DEF Unread
  <2>3. /\ \A i \in 1 .. Len(io.todo) : io.todo[i] = io.wrote[done + i]
        /\ Len(io.buffer) + Len(io.pipe) = 2 * rest
        /\ \A k \in 1 .. rest :
             /\ Unread(2 * k - 1) = [of |-> io.wrote[next + k], part |-> "head"]
             /\ Unread(2 * k) = [of |-> io.wrote[next + k], part |-> "body"]
    BY <1>1 DEF InRow
  <2>4. \A i \in 1 .. Len(tail) : tail[i] = io.wrote[done + 1 + i]
    <3>1. \A i \in 1 .. Len(tail) : i + 1 \in 1 .. Len(io.todo) /\ done + (i + 1) = done + 1 + i
      BY <1>3
    <3> QED
      BY <1>10, <2>3, <3>1
  <2> HIDE DEF next
  <2> QED
    BY <1>5, <2>1, <2>2, <2>3, <2>4 DEF InRow
<1>8. DealtWith(done + 1)'
  BY <1>1, <1>5, <1>6 DEF DealtWith, NextTurn
<1>9. Answers(done + 1)'
  <2>1. \A q, p : Before(q, p)' <=> Before(q, p)
    BY <1>5 DEF Before
  <2>2. /\ \A m, n \in DOMAIN io.out : m < n => Before(io.out[m], io.out[n])
        /\ \A p \in Calls :
             HasAnswer(p) <=> call[p].kind # "silent" /\ \E i \in 1 .. done : io.wrote[i] = p
    BY <1>1 DEF Answers
  <2>3. ASSUME NEW m \in DOMAIN out, NEW n \in DOMAIN out, m < n
        PROVE  Before(out[m], out[n])
    <3>1. m \in DOMAIN io.out
      BY <1>4, <2>3
    <3>2. CASE n \in DOMAIN io.out
      BY <1>4, <2>2, <2>3, <3>1, <3>2
    <3>3. CASE n \notin DOMAIN io.out
      <4>1. n = Len(io.out) + 1 /\ out[n] = r
        BY <1>4, <3>3
      <4>2. out[m] \in Calls /\ HasAnswer(out[m])
        BY <1>2, <1>4, <3>1 DEF HasAnswer
      <4>3. PICK i \in 1 .. done : io.wrote[i] = out[m]
        BY <2>2, <4>2
      <4>4. i \in DOMAIN io.wrote /\ i < done + 1
        BY <1>6, <4>3
      <4> QED
        BY <1>6, <4>1, <4>3, <4>4 DEF Before
    <3> QED
      BY <3>2, <3>3
  <2>4. ASSUME NEW p \in Calls
        PROVE  HasAnswer(p)' <=>
                 call'[p].kind # "silent" /\ \E i \in 1 .. done + 1 : io.wrote[i] = p
    <3> DEFINE before == \E i \in 1 .. done : io.wrote[i] = p
               after == \E i \in 1 .. done + 1 : io.wrote[i] = p
    <3>1. HasAnswer(p)' <=> HasAnswer(p) \/ (answered /\ p = r)
      <4>1. HasAnswer(p)' <=> \E n \in DOMAIN out : out[n] = p
        BY <1>5 DEF HasAnswer
      <4>2. CASE answered
        <5>1. DOMAIN out = DOMAIN io.out \cup {Len(io.out) + 1}
          BY <1>4, <4>2
        <5> QED
          BY <1>4, <4>1, <4>2, <5>1 DEF HasAnswer
      <4>3. CASE ~answered
        BY <1>4, <4>1, <4>3 DEF HasAnswer
      <4> QED
        BY <4>2, <4>3
    <3>2. after <=> p = r \/ before
      BY <1>6
    <3>3. call'[p].kind = call[p].kind
      BY DEF NextTurn
    <3>4. HasAnswer(p) <=> call[p].kind # "silent" /\ before
      BY <2>2
    <3> HIDE DEF before, after
    <3>5. HasAnswer(p)' <=> call'[p].kind # "silent" /\ after
      <4>1. CASE p = r
        BY <3>1, <3>2, <3>3, <3>4, <4>1
      <4>2. CASE p # r
        BY <3>1, <3>2, <3>3, <3>4, <4>2
      <4> QED
        BY <4>1, <4>2
    <3> QED
      BY <3>5 DEF after
  <2> QED
    BY <1>5, <2>1, <2>3, <2>4 DEF Answers
<1> QED
  BY <1>5, <1>7, <1>8, <1>9 DEF FramesSound

\* An answer that is true of the job the call has is true from then on.
LEMMA AnswerKeeps ==
  ASSUME McpInd, StoreSound, NEW r \in Calls, NEW a \in Answer, Turn(r), Answered(r, a),
         call[r].kind # "silent", r \in posts => a = "error",
         a \notin {"none", "plain", "error"} => call[r].job \in JobIds,
         a \in TerminalStatus /\ JobExists(call[r].job) => jobs[call[r].job].status = a
  PROVE  McpInd'
<1>1. /\ McpTypeOK /\ FramesSound
      /\ \A p \in Calls : CallSound(p) /\ CallTold(p)
  BY DEF McpInd
<1>2. UNCHANGED <<storeVars, posts>> /\ tool' = NoTool
  BY DEF Answered
<1>3. /\ call \in [Calls -> Call] /\ call' \in [Calls -> Call]
      /\ \A p \in Calls \ {r} : call'[p] = call[p]
      /\ call'[r].at = "done" /\ call'[r].answer = a
      /\ call'[r].kind = call[r].kind /\ call'[r].key = call[r].key
      /\ call'[r].job = call[r].job
  <2> DEFINE n == [call[r] EXCEPT !.at = "done", !.answer = a]
  <2>1. call \in [Calls -> Call] /\ call' = [call EXCEPT ![r] = n]
    BY <1>1 DEF McpTypeOK, Answered
  <2>2. n \in Call
    BY <2>1 DEF Call
  <2>3. /\ n.at = "done" /\ n.answer = a
        /\ n.kind = call[r].kind /\ n.key = call[r].key /\ n.job = call[r].job
    BY <2>1 DEF Call
  <2> HIDE DEF n
  <2> QED
    BY <2>1, <2>2, <2>3
<1>4. NextTurn(r, TRUE)
  BY <1>3 DEF NextTurn, Answered
<1>5. io' \in Io /\ FramesSound'
  BY <1>1, <1>4, TurnPasses
<1>6. NoTool \in Tool /\ NoTool.at = "none"
  BY DEF NoTool, Tool
<1>7. McpTypeOK'
  BY <1>1, <1>2, <1>3, <1>5, <1>6 DEF McpTypeOK
<1>8. ToolSound'
  BY <1>2, <1>6 DEF ToolSound
<1>9. ASSUME NEW p \in Calls PROVE CallSound(p)' /\ CallTold(p)'
  <2>1. CASE p = r
    <3>1. CallSound(r)'
      BY <1>1, <1>2, <1>3 DEF CallSound
    <3>2. CallTold(r)'
      BY <1>1, <1>2, <1>3 DEF CallTold, JobExists, storeVars
    <3> QED
      BY <2>1, <3>1, <3>2
  <2>2. CASE p # r
    <3>1. ~InHand(p)
      BY <2>2 DEF InHand, Turn
    <3>2. CallSound(p)'
      BY <1>1, <1>2, <1>3, <2>2, <3>1 DEF CallSound
    <3>3. CallTold(p)'
      BY <1>1, <1>2, <1>3, <2>2 DEF CallTold, JobExists, storeVars
    <3> QED
      BY <3>2, <3>3
  <2> QED
    BY <2>1, <2>2
<1> QED
  BY <1>5, <1>7, <1>8, <1>9 DEF McpInd

\* A notification has no answer.
LEMMA SilenceKeeps ==
  ASSUME McpInd, StoreSound, NEW r \in Calls, Turn(r), tool.at = "none",
         call[r].kind = "silent", Dispatched(r)
  PROVE  McpInd'
<1>1. /\ McpTypeOK /\ FramesSound
      /\ \A p \in Calls : CallSound(p) /\ CallTold(p)
  BY DEF McpInd
<1>2. UNCHANGED <<storeVars, tool, posts>>
  BY DEF Dispatched
<1>3. /\ call \in [Calls -> Call] /\ call' \in [Calls -> Call]
      /\ \A p \in Calls \ {r} : call'[p] = call[p]
      /\ call'[r].at = "done" /\ call'[r].answer = call[r].answer
      /\ call'[r].kind = call[r].kind /\ call'[r].key = call[r].key
      /\ call'[r].job = call[r].job
  <2> DEFINE n == [call[r] EXCEPT !.at = "done"]
  <2>1. call \in [Calls -> Call] /\ call' = [call EXCEPT ![r] = n]
    BY <1>1 DEF McpTypeOK, Dispatched
  <2>2. n \in Call
    BY <2>1 DEF Call
  <2>3. /\ n.at = "done" /\ n.answer = call[r].answer
        /\ n.kind = call[r].kind /\ n.key = call[r].key /\ n.job = call[r].job
    BY <2>1 DEF Call
  <2> HIDE DEF n
  <2> QED
    BY <2>1, <2>2, <2>3
<1>4. NextTurn(r, FALSE)
  <2>1. io' = [io EXCEPT !.todo = Tail(@), !.out = @]
    BY <1>1 DEF Dispatched, McpTypeOK, Io
  <2> QED
    BY <1>3, <2>1 DEF NextTurn, Dispatched
<1>5. io' \in Io /\ FramesSound'
  BY <1>1, <1>4, TurnPasses
<1>6. McpTypeOK'
  BY <1>1, <1>2, <1>3, <1>5 DEF McpTypeOK
<1>7. ToolSound'
  BY <1>2 DEF ToolSound
<1>8. ASSUME NEW p \in Calls PROVE CallSound(p)' /\ CallTold(p)'
  <2>1. CallSound(p)'
    <3>1. ~InHand(p)
      BY DEF InHand
    <3> QED
      BY <1>1, <1>2, <1>3, <3>1 DEF CallSound
  <2>2. CallTold(p)'
    BY <1>2, <1>3, StoreRests, TellingStays
  <2> QED
    BY <2>1, <2>2
<1> QED
  BY <1>5, <1>6, <1>7, <1>8 DEF McpInd

\* The awaits of a call.
LEMMA AdapterKeeps ==
  ASSUME McpInd, StoreSound, NEW r \in Calls, Adapter(r) \/ TimePasses(r)
  PROVE  McpInd'
<1>1. /\ McpTypeOK /\ ToolSound /\ CallSound(r) /\ CallTold(r)
      /\ tool \in Tool /\ call[r] \in Call
  BY DEF McpInd, McpTypeOK
<1>2. Turn(r) /\ io.todo # <<>> /\ Head(io.todo) = r
  BY DEF Adapter, Dispatch, Accepted, RequestFails, JobRead, Decides, Wakes, TimePasses, Turn
<1>3. tool.at # "none" => call[r].kind \in {"run", "get"}
  BY <1>1, <1>2 DEF ToolSound
<1>4. tool.at \notin {"none", "posting"} => call[r].job \in JobIds
  BY <1>1, <1>2 DEF ToolSound
<1>5. ASSUME NEW at \in {"reading", "sleeping"}, UNCHANGED <<storeVars, call, io, posts>>,
             tool' = [tool EXCEPT !.at = at],
             call[r].kind \in {"run", "get"}, call[r].job \in JobIds
      PROVE  McpInd'
  <2>1. tool' \in Tool /\ tool'.at \notin {"none", "posting", "deciding"}
    BY <1>1, <1>5 DEF Tool
  <2> QED
    BY <1>2, <1>5, <2>1, ToolMoves
<1>6. CASE Dispatch(r)
  <2>1. CASE call[r].kind = "silent" /\ Dispatched(r)
    BY <1>2, <1>6, <2>1, SilenceKeeps DEF Dispatch
  <2>2. CASE call[r].kind = "plain" /\ Answered(r, "plain")
    <3>1. r \notin posts
      BY <1>1, <2>2 DEF CallSound
    <3> QED
      BY <1>2, <2>2, <3>1, AnswerKeeps DEF Answer, TerminalStatus
  <2>3. CASE /\ call[r].kind = "run"
             /\ tool' = [tool EXCEPT !.at = "posting"]
             /\ posts' = posts \cup {r}
             /\ UNCHANGED <<storeVars, call, io>>
    <3>1. tool.at = "none" /\ tool' \in Tool /\ tool'.at = "posting"
      BY <1>1, <1>6, <2>3 DEF Dispatch, Tool
    <3> QED
      BY <1>2, <2>3, <3>1, ToolMoves
  <2>4. CASE /\ call[r].kind = "get"
             /\ tool' = [tool EXCEPT !.at = "reading"]
             /\ UNCHANGED <<storeVars, call, io, posts>>
    <3>1. call[r].job \in JobIds
      BY <1>1, <2>4 DEF CallSound
    <3> QED
      BY <1>5, <2>4, <3>1
  <2> QED
    BY <1>6, <2>1, <2>2, <2>3, <2>4 DEF Dispatch
<1>7. CASE Accepted(r)
  <2>1. call[r].job \in JobIds
    BY <1>1, <1>7 DEF Accepted, Call
  <2>2. tool.at = "posting" /\ tool' = [tool EXCEPT !.at = "reading"]
        /\ UNCHANGED <<storeVars, call, io, posts>>
    BY <1>7 DEF Accepted
  <2> QED
    BY <1>3, <1>5, <2>1, <2>2
<1>8. CASE RequestFails(r)
  BY <1>2, <1>3, <1>8, AnswerKeeps DEF RequestFails, Answer, TerminalStatus
<1>9. CASE JobRead(r)
  <2> DEFINE status == jobs[call[r].job].status
  <2>1. status \in ActiveStatus \cup TerminalStatus
    BY <1>4, <1>9 DEF JobRead, JobExists, StoreSound, StoreTypeOK, JobRow
  <2>2. tool' = [tool EXCEPT !.at = "deciding", !.view = status]
    BY <1>9 DEF JobRead
  <2> HIDE DEF status
  <2>3. tool' \in Tool /\ tool'.at = "deciding" /\ tool'.view = status
    BY <1>1, <2>1, <2>2 DEF Tool
  <2>4. /\ tool.at = "reading" /\ JobExists(call[r].job)
        /\ UNCHANGED <<storeVars, call, io, posts>>
    BY <1>9 DEF JobRead
  <2> QED
    BY <1>2, <1>3, <1>4, <2>3, <2>4, ToolMoves DEF status
<1>10. CASE Decides(r)
  <2>1. /\ tool.at = "deciding" /\ call[r].job \in JobIds
        /\ tool.view # "none"
        /\ tool.view \in TerminalStatus /\ JobExists(call[r].job) =>
             jobs[call[r].job].status = tool.view
    BY <1>1, <1>2, <1>4, <1>10 DEF Decides, ToolSound
  <2>2. r \notin posts
    BY <1>1, <2>1, NullsAssumption DEF CallSound
  <2>3. tool.view \in Answer
    BY <1>1, <2>1 DEF Tool, Answer, ActiveStatus, TerminalStatus
  <2>4. CASE Answered(r, tool.view)
    BY <1>2, <1>3, <2>1, <2>2, <2>3, <2>4, AnswerKeeps
  <2>5. CASE Answered(r, "timeout")
    BY <1>2, <1>3, <2>1, <2>2, <2>5, AnswerKeeps DEF Answer, TerminalStatus
  <2>6. CASE tool' = [tool EXCEPT !.at = "sleeping"] /\ UNCHANGED <<storeVars, call, io, posts>>
    BY <1>3, <1>5, <2>1, <2>6
  <2> QED
    BY <1>10, <2>4, <2>5, <2>6 DEF Decides
<1>11. CASE Wakes(r)
  <2>1. /\ tool.at = "sleeping" /\ tool' = [tool EXCEPT !.at = "reading"]
        /\ UNCHANGED <<storeVars, call, io, posts>>
    BY <1>11 DEF Wakes
  <2> QED
    BY <1>3, <1>4, <1>5, <2>1
<1>12. CASE TimePasses(r)
  <2>1. tool' \in Tool /\ tool'.at = tool.at /\ tool'.view = tool.view
    BY <1>1, <1>12 DEF TimePasses, Tool
  <2>2. /\ call[r].kind = "run" /\ tool.at \in {"reading", "deciding", "sleeping"}
        /\ UNCHANGED <<storeVars, call, io, posts>>
    BY <1>12 DEF TimePasses
  <2> QED
    <3>1. call[r].job \in JobIds /\ tool'.at \notin {"none", "posting"}
      BY <1>4, <2>1, <2>2
    <3> QED
      BY <1>2, <2>1, <2>2, <3>1, ToolMoves
<1> QED
  BY <1>6, <1>7, <1>8, <1>9, <1>10, <1>11, <1>12 DEF Adapter

\* The process ends, and with it all that it has read.
LEMMA EndKeeps ==
  ASSUME McpInd, StoreSound, EndsProcess
  PROVE  McpInd'
<1>1. /\ McpTypeOK
      /\ \A p \in Calls : CallSound(p) /\ CallTold(p)
      /\ call \in [Calls -> Call]
  BY DEF McpInd, McpTypeOK
<1>2. UNCHANGED <<storeVars, posts>> /\ tool' = NoTool /\ io' = NewIo
  BY DEF EndsProcess
<1>3. /\ call' \in [Calls -> Call]
      /\ \A p \in Calls :
           /\ call'[p].at = IF call[p].at = "sent" THEN "lost" ELSE call[p].at
           /\ call'[p].kind = call[p].kind /\ call'[p].key = call[p].key
           /\ call'[p].job = call[p].job /\ call'[p].answer = call[p].answer
  <2>1. ASSUME NEW p \in Calls
        PROVE  /\ call'[p] \in Call
               /\ call'[p].at = IF call[p].at = "sent" THEN "lost" ELSE call[p].at
               /\ call'[p].kind = call[p].kind /\ call'[p].key = call[p].key
               /\ call'[p].job = call[p].job /\ call'[p].answer = call[p].answer
    BY <1>1 DEF EndsProcess, Call
  <2>2. call' = [p \in Calls |-> call'[p]]
    BY DEF EndsProcess
  <2> QED
    BY <2>1, <2>2
<1>4. NoTool \in Tool /\ NoTool.at = "none"
  BY DEF NoTool, Tool
<1>5. /\ NewIo \in Io
      /\ Len(NewIo.todo) = 0 /\ Len(NewIo.buffer) = 0 /\ Len(NewIo.pipe) = 0
      /\ Len(NewIo.wrote) = 0
      /\ DOMAIN NewIo.wrote = {} /\ DOMAIN NewIo.out = {}
  BY DEF NewIo, Io
<1>6. McpTypeOK'
  BY <1>1, <1>2, <1>3, <1>4, <1>5 DEF McpTypeOK
<1>7. InRow(0)' /\ DealtWith(0)' /\ Answers(0)'
  <2>1. InRow(0)'
    BY <1>2, <1>5 DEF InRow
  <2>2. DealtWith(0)'
    BY <1>2, <1>5 DEF DealtWith
  <2>3. Answers(0)'
    BY <1>2, <1>5 DEF Answers, HasAnswer
  <2> QED
    BY <2>1, <2>2, <2>3
<1>8. FramesSound'
  BY <1>7 DEF FramesSound
<1>9. ToolSound'
  BY <1>2, <1>4 DEF ToolSound
<1>10. ASSUME NEW p \in Calls PROVE CallSound(p)' /\ CallTold(p)'
  <2>1. CallSound(p)'
    BY <1>1, <1>2, <1>3 DEF CallSound
  <2>2. CallTold(p)'
    BY <1>2, <1>3, StoreRests, TellingStays
  <2> QED
    BY <2>1, <2>2
<1> QED
  BY <1>6, <1>8, <1>9, <1>10 DEF McpInd

LEMMA TwoMore ==
  ASSUME NEW S, NEW s \in Seq(S), NEW a \in S, NEW b \in S
  PROVE  /\ s \o <<a, b>> \in Seq(S)
         /\ Len(s \o <<a, b>>) = Len(s) + 2
         /\ \A i \in 1 .. Len(s) : (s \o <<a, b>>)[i] = s[i]
         /\ (s \o <<a, b>>)[Len(s) + 1] = a
         /\ (s \o <<a, b>>)[Len(s) + 2] = b
<1> DEFINE two == <<a, b>>
<1>1. two \in Seq(S) /\ Len(two) = 2 /\ two[1] = a /\ two[2] = b
  OBVIOUS
<1>2. Len(s) \in Nat
  OBVIOUS
<1> HIDE DEF two
<1>3. /\ s \o two \in Seq(S)
      /\ Len(s \o two) = Len(s) + Len(two)
      /\ \A i \in 1 .. Len(s) + Len(two) :
           (s \o two)[i] = IF i <= Len(s) THEN s[i] ELSE two[i - Len(s)]
  BY <1>1, ConcatProperties
<1>4. (s \o two)[Len(s) + 1] = a
  <2>1. Len(s) + 1 - Len(s) = 1 /\ Len(s) + 1 \in 1 .. Len(s) + 2 /\ ~(Len(s) + 1 <= Len(s))
    BY <1>2
  <2> QED
    BY <1>1, <1>3, <2>1
<1>5. (s \o two)[Len(s) + 2] = b
  <2>1. Len(s) + 2 - Len(s) = 2 /\ Len(s) + 2 \in 1 .. Len(s) + 2 /\ ~(Len(s) + 2 <= Len(s))
    BY <1>2
  <2> QED
    BY <1>1, <1>3, <2>1
<1>6. \A i \in 1 .. Len(s) : (s \o two)[i] = s[i]
  BY <1>1, <1>2, <1>3
<1>7. s \o two \in Seq(S) /\ Len(s \o two) = Len(s) + 2
  BY <1>1, <1>3
<1> QED
  BY <1>4, <1>5, <1>6, <1>7 DEF two

\* A frame that is written comes after all the others.
LEMMA FrameJoins ==
  ASSUME McpTypeOK, FramesSound, NEW r \in Calls, call[r].at = "unsent",
         io' = [io EXCEPT
           !.pipe = @ \o <<[of |-> r, part |-> "head"], [of |-> r, part |-> "body"]>>,
           !.wrote = Append(@, r)],
         call'[r].at = "sent", \A p \in Calls : p # r => call'[p] = call[p]
  PROVE  io' \in Io /\ FramesSound'
<1>1. PICK done \in Nat : InRow(done) /\ DealtWith(done) /\ Answers(done)
  BY DEF FramesSound
<1> DEFINE head == [of |-> r, part |-> "head"]
           body == [of |-> r, part |-> "body"]
           todos == Len(io.todo)
           left == Len(io.buffer)
           ahead == Len(io.pipe)
           count == Len(io.wrote)
           pipe == io.pipe \o <<head, body>>
           wrote == Append(io.wrote, r)
<1>2. /\ io.todo \in Seq(Calls) /\ io.out \in Seq(Calls) /\ io.wrote \in Seq(Calls)
      /\ io.buffer \in Seq(Token) /\ io.pipe \in Seq(Token)
      /\ io \in Io
      /\ head \in Token /\ body \in Token
  BY DEF McpTypeOK, Io, Token
<1> HIDE DEF head, body
<1>3. /\ pipe \in Seq(Token) /\ Len(pipe) = ahead + 2
      /\ \A i \in 1 .. ahead : pipe[i] = io.pipe[i]
      /\ pipe[ahead + 1] = head /\ pipe[ahead + 2] = body
  BY <1>2, TwoMore
<1>4. /\ wrote \in Seq(Calls) /\ Len(wrote) = count + 1
      /\ DOMAIN wrote = 1 .. count + 1
      /\ \A i \in 1 .. count : wrote[i] = io.wrote[i]
      /\ wrote[count + 1] = r
      /\ DOMAIN io.wrote = 1 .. count
  BY <1>2, AppendProperties
<1> HIDE DEF pipe, wrote
<1>6. todos \in Nat /\ left \in Nat /\ ahead \in Nat /\ count \in Nat
  BY <1>2
<1>5. /\ io'.pipe = pipe /\ io'.wrote = wrote
      /\ io'.todo = io.todo /\ io'.out = io.out /\ io'.buffer = io.buffer
      /\ io' \in Io
  <2>1. io' = [io EXCEPT !.pipe = pipe, !.wrote = wrote]
    BY DEF pipe, wrote, head, body
  <2> QED
    BY <1>2, <1>3, <1>4, <2>1 DEF Io
<1> DEFINE next == done + todos
           rest == count - next
<1>7. left + ahead = 2 * rest
  BY <1>1 DEF InRow
<1>13. /\ \A i \in 1 .. todos : io.todo[i] = io.wrote[done + i]
       /\ \A k \in 1 .. rest :
            /\ Unread(2 * k - 1) = [of |-> io.wrote[next + k], part |-> "head"]
            /\ Unread(2 * k) = [of |-> io.wrote[next + k], part |-> "body"]
  BY <1>1 DEF InRow
<1> HIDE DEF todos, left, ahead, count
<1>8. next \in Nat /\ rest \in Nat /\ next + rest = count /\ done <= count
  BY <1>6, <1>7
<1>9. InRow(done)'
  <2>1. \A i \in 1 .. todos : io.todo[i] = wrote[done + i]
    <3>1. \A i \in 1 .. todos : done + i \in 1 .. count
      BY <1>6, <1>8
    <3> QED
      BY <1>4, <1>13, <3>1
  <2>2. Len(wrote) - next = rest + 1
    BY <1>4, <1>8
  <2>3. left + Len(pipe) = 2 * (rest + 1)
    <3>1. Len(pipe) = ahead + 2
      BY <1>3
    <3>2. ASSUME NEW a \in Nat, NEW b \in Nat, NEW c \in Nat, a + b = 2 * c
          PROVE  a + (b + 2) = 2 * (c + 1)
      BY <3>2
    <3>3. left + (ahead + 2) = 2 * (rest + 1)
      BY <1>6, <1>7, <1>8, <3>2
    <3> QED
      BY <3>1, <3>3
  <2>4. \A i \in 1 .. 2 * rest : Unread(i)' = Unread(i)
    <3> SUFFICES ASSUME NEW i \in 1 .. 2 * rest PROVE Unread(i)' = Unread(i)
      OBVIOUS
    <3>1. CASE i <= left
      BY <1>5, <3>1 DEF Unread, left
    <3>2. CASE ~(i <= left)
      <4>1. i - left \in 1 .. ahead
        BY <1>6, <1>7, <1>8, <3>2
      <4> QED
        BY <1>3, <1>5, <3>2, <4>1 DEF Unread, left
    <3> QED
      BY <3>1, <3>2
  <2>5. ASSUME NEW i \in Nat
        PROVE  /\ i = 2 * rest + 1 => Unread(i)' = head
               /\ i = 2 * rest + 2 => Unread(i)' = body
    <3>1. ASSUME i = 2 * rest + 1
          PROVE  ~(i <= left) /\ i - left = ahead + 1
      BY <1>6, <1>7, <1>8, <3>1
    <3>2. ASSUME i = 2 * rest + 2
          PROVE  ~(i <= left) /\ i - left = ahead + 2
      BY <1>6, <1>7, <1>8, <3>2
    <3> HIDE DEF rest
    <3> QED
      BY <1>3, <1>5, <3>1, <3>2 DEF Unread, left
  <2>6. ASSUME NEW k \in 1 .. rest + 1
        PROVE  /\ Unread(2 * k - 1)' = [of |-> wrote[next + k], part |-> "head"]
               /\ Unread(2 * k)' = [of |-> wrote[next + k], part |-> "body"]
    <3>1. CASE k \in 1 .. rest
      <4>1. 2 * k - 1 \in 1 .. 2 * rest /\ 2 * k \in 1 .. 2 * rest /\ next + k \in 1 .. count
        BY <1>8, <3>1
      <4> HIDE DEF next, rest
      <4> QED
        BY <1>4, <1>13, <2>4, <3>1, <4>1
    <3>2. CASE k = rest + 1
      <4>1. /\ 2 * k - 1 = 2 * rest + 1 /\ 2 * k = 2 * rest + 2 /\ next + k = count + 1
            /\ 2 * k - 1 \in Nat /\ 2 * k \in Nat
        BY <1>8, <3>2
      <4> HIDE DEF next, rest
      <4> QED
        BY <1>4, <2>5, <4>1 DEF head, body
    <3> QED
      BY <1>8, <2>6, <3>1, <3>2
  <2> HIDE DEF next, rest
  <2>7. /\ io'.todo = io.todo /\ io'.buffer = io.buffer /\ io'.pipe = pipe /\ io'.wrote = wrote
        /\ todos = Len(io.todo) /\ left = Len(io.buffer)
        /\ next = done + todos /\ rest + 1 = Len(wrote) - next
    BY <1>5, <2>2 DEF next, todos, left
  <2> QED
    BY <2>1, <2>3, <2>6, <2>7 DEF InRow
<1>10. /\ \A i \in 1 .. count : io.wrote[i] \in Calls /\ io.wrote[i] # r
       /\ ~(count + 1 <= done)
  <2>1. \A i \in 1 .. count : io.wrote[i] \in Calls
    BY <1>2 DEF count
  <2>2. \A i \in 1 .. count : call[io.wrote[i]].at # "unsent"
    BY <1>1, <1>4 DEF DealtWith
  <2> QED
    BY <1>8, <2>1, <2>2
<1>11. DealtWith(done)'
  <2>1. \A i \in 1 .. count + 1 :
          IF i = count + 1 THEN wrote[i] = r ELSE i \in 1 .. count /\ wrote[i] = io.wrote[i]
    BY <1>4, <1>6
  <2>2. /\ \A i, k \in 1 .. count : io.wrote[i] = io.wrote[k] => i = k
        /\ \A i \in 1 .. count :
             call[io.wrote[i]].at = IF i <= done THEN "done" ELSE "sent"
    BY <1>1, <1>4 DEF DealtWith
  <2>3. \A i, k \in 1 .. count + 1 : wrote[i] = wrote[k] => i = k
    BY <1>10, <2>1, <2>2
  <2>4. \A i \in 1 .. count + 1 :
          call'[wrote[i]].at = IF i <= done THEN "done" ELSE "sent"
    BY <1>10, <2>1, <2>2
  <2> QED
    BY <1>4, <1>5, <2>3, <2>4 DEF DealtWith
<1>12. Answers(done)'
  <2>1. \A p, q : Before(p, q) => Before(p, q)'
    BY <1>4, <1>5, <1>6 DEF Before
  <2>2. \A p : HasAnswer(p)' <=> HasAnswer(p)
    BY <1>5 DEF HasAnswer
  <2>3. \A i \in 1 .. done : wrote[i] = io.wrote[i] /\ io.wrote[i] # r
    <3>1. \A i \in 1 .. done : i \in 1 .. count
      BY <1>6, <1>8
    <3> QED
      BY <1>4, <1>10, <3>1
  <2>4. /\ \A m, n \in DOMAIN io.out : m < n => Before(io.out[m], io.out[n])
        /\ \A p \in Calls :
             HasAnswer(p) <=> call[p].kind # "silent" /\ \E i \in 1 .. done : io.wrote[i] = p
    BY <1>1 DEF Answers
  <2>5. ASSUME NEW p \in Calls
        PROVE  HasAnswer(p)' <=> call'[p].kind # "silent" /\ \E i \in 1 .. done : wrote[i] = p
    <3>1. CASE p = r
      BY <2>2, <2>3, <2>4, <3>1
    <3>2. CASE p # r
      BY <2>2, <2>3, <2>4, <3>2
    <3> QED
      BY <3>1, <3>2
  <2> QED
    BY <1>5, <2>1, <2>4, <2>5 DEF Answers
<1> QED
  BY <1>1, <1>5, <1>9, <1>11, <1>12 DEF FramesSound

\* The client writes a frame.
LEMMA FrameKeeps ==
  ASSUME McpInd, StoreSound, NEW r \in Calls, NEW kind \in Kind, NEW key \in Keys \cup {NoKey},
         NEW job \in JobIds \cup {NoJob}, Writes(r, kind, key, job),
         kind = "run" => key \in Keys /\ job = NoJob, kind = "get" => job \in JobIds
  PROVE  McpInd'
<1>1. /\ McpTypeOK /\ FramesSound /\ ToolSound
      /\ \A p \in Calls : CallSound(p) /\ CallTold(p)
  BY DEF McpInd
<1>2. UNCHANGED <<storeVars, tool, posts>> /\ call[r].at = "unsent"
  BY DEF Writes
<1> DEFINE n == [kind |-> kind, key |-> key, job |-> job, at |-> "sent", answer |-> "none"]
<1>3. /\ call' \in [Calls -> Call]
      /\ call'[r] = n /\ \A p \in Calls : p # r => call'[p] = call[p]
  <2>1. n \in Call
    BY DEF Call, Answer
  <2>2. call \in [Calls -> Call] /\ call' = [call EXCEPT ![r] = n]
    BY <1>1 DEF McpTypeOK, Writes
  <2> HIDE DEF n
  <2> QED
    BY <2>1, <2>2
<1>4. io' \in Io /\ FramesSound'
  <2>1. io' = [io EXCEPT
          !.pipe = @ \o <<[of |-> r, part |-> "head"], [of |-> r, part |-> "body"]>>,
          !.wrote = Append(@, r)]
    BY DEF Writes
  <2> QED
    <3>1. call'[r].at = "sent"
      BY <1>3
    <3> HIDE DEF n
    <3> QED
      BY <1>1, <1>2, <1>3, <2>1, <3>1, FrameJoins
<1>5. UNCHANGED io.todo
  <2>1. io \in Io
    BY <1>1 DEF McpTypeOK
  <2> QED
    BY <2>1 DEF Writes, Io
<1>6. McpTypeOK'
  BY <1>1, <1>2, <1>3, <1>4 DEF McpTypeOK
<1>7. io.todo # <<>> => Head(io.todo) \in Calls /\ Head(io.todo) # r
  BY <1>1, <1>2, HeadIsSent
<1>8. ToolSound'
  <2> SUFFICES ASSUME tool.at # "none" PROVE ToolSound'
    BY <1>2 DEF ToolSound
  <2>1. io.todo # <<>>
    BY <1>1 DEF ToolSound
  <2>2. call'[Head(io.todo)] = call[Head(io.todo)]
    BY <1>3, <1>7, <2>1
  <2> QED
    BY <1>1, <1>2, <1>5, <2>1, <2>2 DEF ToolSound, JobExists, storeVars
<1>9. ASSUME NEW p \in Calls PROVE CallSound(p)' /\ CallTold(p)'
  <2>1. CASE p = r
    <3>1. r \notin posts
      BY <1>1, <1>2 DEF CallSound
    <3>2. CallSound(r)'
      BY <1>2, <1>3, <3>1 DEF CallSound
    <3>3. CallTold(r)'
      BY <1>3, NullsAssumption DEF CallTold, TerminalStatus
    <3> QED
      BY <2>1, <3>2, <3>3
  <2>2. CASE p # r
    <3>1. InHand(p)' <=> InHand(p)
      BY <1>2, <1>5 DEF InHand, Turn
    <3>2. CallSound(p)'
      BY <1>1, <1>2, <1>3, <2>2, <3>1 DEF CallSound
    <3>3. CallTold(p)'
      BY <1>1, <1>2, <1>3, <2>2 DEF CallTold, JobExists, storeVars
    <3> QED
      BY <3>2, <3>3
  <2> QED
    BY <2>1, <2>2
<1> QED
  BY <1>4, <1>6, <1>8, <1>9 DEF McpInd

LEMMA FirstPart ==
  ASSUME NEW S, NEW s \in Seq(S), NEW size \in 1 .. Len(s)
  PROVE  /\ SubSeq(s, 1, size) \in Seq(S)
         /\ Len(SubSeq(s, 1, size)) = size
         /\ \A i \in 1 .. size : SubSeq(s, 1, size)[i] = s[i]
<1> DEFINE part == SubSeq(s, 1, size)
<1>1. Len(s) \in Nat /\ size \in Nat /\ 1 <= size
  OBVIOUS
<1>2. \A i \in 1 .. size : s[i] \in S
  OBVIOUS
<1>3. /\ part \in Seq(S) /\ Len(part) = IF 1 <= size THEN size - 1 + 1 ELSE 0
      /\ \A i \in 1 .. size - 1 + 1 : part[i] = s[1 + i - 1]
  BY <1>1, <1>2, SubSeqProperties
<1> HIDE DEF part
<1>4. /\ part \in Seq(S) /\ Len(part) = size
      /\ \A i \in 1 .. size : part[i] = s[i]
  BY <1>1, <1>3
<1> QED
  BY <1>4 DEF part

LEMMA LastPart ==
  ASSUME NEW S, NEW s \in Seq(S), NEW m \in 0 .. Len(s)
  PROVE  /\ SubSeq(s, m + 1, Len(s)) \in Seq(S)
         /\ Len(SubSeq(s, m + 1, Len(s))) = Len(s) - m
         /\ \A i \in 1 .. Len(s) - m : SubSeq(s, m + 1, Len(s))[i] = s[m + i]
<1> DEFINE length == Len(s)
           part == SubSeq(s, m + 1, length)
<1>1. length \in Nat /\ m \in 0 .. length
  OBVIOUS
<1>2. \A i \in 1 .. length : s[i] \in S
  OBVIOUS
<1> HIDE DEF length
<1>3. \A i \in m + 1 .. length : s[i] \in S
  <2>1. \A i \in m + 1 .. length : i \in 1 .. length
    BY <1>1
  <2> QED
    BY <1>2, <2>1
<1>4. m + 1 \in Int /\ length \in Int
  BY <1>1
<1>5. /\ part \in Seq(S)
      /\ Len(part) = IF m + 1 <= length THEN length - (m + 1) + 1 ELSE 0
      /\ \A i \in 1 .. length - (m + 1) + 1 : part[i] = s[m + 1 + i - 1]
  BY <1>3, <1>4, SubSeqProperties
<1> HIDE DEF part
<1>6. Len(part) = length - m
  BY <1>1, <1>5
<1>7. \A i \in 1 .. length - m : part[i] = s[m + i]
  <2>1. \A i \in 1 .. length - m : i \in 1 .. length - (m + 1) + 1 /\ m + 1 + i - 1 = m + i
    BY <1>1
  <2> QED
    BY <1>5, <2>1
<1> QED
  BY <1>5, <1>6, <1>7 DEF part, length

\* Where the tokens of the buffer and the pipe are after n frames have been cut off.
LEMMA CutSums ==
  ASSUME NEW left \in Nat, NEW ahead \in Nat, NEW size \in 1 .. ahead, NEW n \in Nat,
         NEW rest \in Int, left + ahead = 2 * rest, 2 * n <= left + size,
         NEW cut, cut = left + size - 2 * n
  PROVE  /\ rest \in Nat /\ n <= rest /\ rest - n \in Nat
         /\ cut + (ahead - size) = 2 * (rest - n)
OBVIOUS

LEMMA CutTokens ==
  ASSUME NEW left \in Nat, NEW ahead \in Nat, NEW size \in 1 .. ahead, NEW n \in Nat,
         NEW rest \in Int, left + ahead = 2 * rest, 2 * n <= left + size,
         NEW cut, cut = left + size - 2 * n,
         NEW i \in 1 .. 2 * (rest - n)
  PROVE  /\ i <= cut => i \in 1 .. cut /\ 2 * n + i \in 1 .. left + size
         /\ ~(i <= cut) => /\ i - cut \in 1 .. ahead - size
                           /\ ~(2 * n + i <= left)
                           /\ (2 * n + i) - left = size + (i - cut)
<1>1. cut + (ahead - size) = 2 * (rest - n)
  OBVIOUS
<1>2. ASSUME i <= cut PROVE i \in 1 .. cut /\ 2 * n + i \in 1 .. left + size
  BY <1>2
<1>3. ASSUME ~(i <= cut)
      PROVE  /\ i - cut \in 1 .. ahead - size
             /\ ~(2 * n + i <= left)
             /\ (2 * n + i) - left = size + (i - cut)
  BY <1>1, <1>3
<1> QED
  BY <1>2, <1>3

LEMMA CutFrames ==
  ASSUME NEW n \in Nat, NEW rest \in Nat, n <= rest, NEW k \in 1 .. rest - n
  PROVE  /\ n + k \in 1 .. rest
         /\ 2 * k - 1 \in 1 .. 2 * (rest - n) /\ 2 * k \in 1 .. 2 * (rest - n)
         /\ 2 * n + (2 * k - 1) = 2 * (n + k) - 1 /\ 2 * n + 2 * k = 2 * (n + k)
OBVIOUS

\* The decoder takes a chunk of the pipe and cuts n frames off.
CutsOff(tokens, size, n) ==
  /\ io.todo = <<>>
  /\ tokens = io.buffer \o SubSeq(io.pipe, 1, size)
  /\ io' = [io EXCEPT
       !.pipe = SubSeq(@, size + 1, Len(@)),
       !.buffer = SubSeq(tokens, 2 * n + 1, Len(tokens)),
       !.todo = [i \in 1 .. n |-> tokens[2 * i].of]]
  /\ UNCHANGED call

LEMMA ChunkCut ==
  ASSUME McpTypeOK, FramesSound, NEW size \in 1 .. Len(io.pipe), NEW tokens,
         NEW n \in WholeFrames(tokens), CutsOff(tokens, size, n)
  PROVE  io' \in Io /\ FramesSound'
<1>1. PICK done \in Nat : InRow(done) /\ DealtWith(done) /\ Answers(done)
  BY DEF FramesSound
<1> DEFINE chunk == SubSeq(io.pipe, 1, size)
           pipe == SubSeq(io.pipe, size + 1, Len(io.pipe))
           buffer == SubSeq(tokens, 2 * n + 1, Len(tokens))
           todo == [i \in 1 .. n |-> tokens[2 * i].of]
           left == Len(io.buffer)
           ahead == Len(io.pipe)
           count == Len(io.wrote)
           length == Len(tokens)
<1>2. /\ io.out \in Seq(Calls) /\ io.wrote \in Seq(Calls)
      /\ io.buffer \in Seq(Token) /\ io.pipe \in Seq(Token)
      /\ io \in Io
  BY DEF McpTypeOK, Io
<1>3. left \in Nat /\ ahead \in Nat /\ count \in Nat /\ size \in 1 .. ahead /\ size \in Nat
  BY <1>2
<1>5. /\ chunk \in Seq(Token) /\ Len(chunk) = size
      /\ \A i \in 1 .. size : chunk[i] = io.pipe[i]
  BY <1>2, FirstPart
<1> HIDE DEF chunk
<1>6. /\ tokens \in Seq(Token) /\ length = left + size
      /\ \A i \in 1 .. left + size :
           tokens[i] = IF i <= left THEN io.buffer[i] ELSE chunk[i - left]
  <2>1. tokens = io.buffer \o chunk
    BY DEF chunk, CutsOff
  <2>2. io.buffer \in Seq(Token) /\ chunk \in Seq(Token)
    BY <1>2, <1>5
  <2> HIDE DEF left, length
  <2>3. /\ io.buffer \o chunk \in Seq(Token)
        /\ Len(io.buffer \o chunk) = Len(io.buffer) + Len(chunk)
        /\ \A i \in 1 .. Len(io.buffer) + Len(chunk) :
             (io.buffer \o chunk)[i] = IF i <= Len(io.buffer)
                                      THEN io.buffer[i] ELSE chunk[i - Len(io.buffer)]
    BY <2>2, ConcatProperties, Zenon
  <2> QED
    BY <1>5, <2>1, <2>3, Zenon DEF left, length
<1> HIDE DEF left, ahead, count, length
<1>7. \A i \in 1 .. left + size : tokens[i] = Unread(i)
  <2> SUFFICES ASSUME NEW i \in 1 .. left + size PROVE tokens[i] = Unread(i)
    OBVIOUS
  <2>1. CASE i <= left
    BY <1>6, <2>1 DEF Unread, left
  <2>2. CASE ~(i <= left)
    <3>1. i - left \in 1 .. size
      BY <1>3, <2>2
    <3> QED
      BY <1>5, <1>6, <2>2, <3>1 DEF Unread, left
  <2> QED
    BY <2>1, <2>2
<1>8. n \in Nat /\ 2 * n <= length /\ \A i \in 1 .. n : 2 * i \in 1 .. length
  <2>1. n \in 0 .. length /\ \A i \in 1 .. n : IsFrame(tokens, i)
    BY DEF WholeFrames, length
  <2>2. \A i \in 1 .. n : 2 * i <= length
    BY <2>1 DEF IsFrame, length
  <2>3. length \in Nat /\ n \in Nat
    BY <1>3, <1>6, <2>1
  <2>4. CASE n = 0
    BY <2>3, <2>4
  <2>5. CASE n # 0
    <3>1. 2 * n <= length
      BY <2>2, <2>3, <2>5
    <3>2. \A i \in 1 .. n : 2 * i \in 1 .. length
      BY <2>2, <2>3
    <3> QED
      BY <2>3, <3>1, <3>2
  <2> QED
    BY <2>4, <2>5
<1>9. /\ pipe \in Seq(Token) /\ Len(pipe) = ahead - size
      /\ \A i \in 1 .. ahead - size : pipe[i] = io.pipe[size + i]
  <2>1. size \in 0 .. Len(io.pipe)
    BY <1>3 DEF ahead
  <2> QED
    BY <1>2, <2>1, LastPart DEF ahead
<1> DEFINE cut == length - 2 * n
<1>10. /\ buffer \in Seq(Token) /\ Len(buffer) = cut
       /\ \A i \in 1 .. cut : buffer[i] = tokens[2 * n + i]
  <2>1. 2 * n \in 0 .. length
    BY <1>3, <1>6, <1>8
  <2> QED
    BY <1>6, <2>1, LastPart DEF length
<1>11. /\ todo \in Seq(Calls) /\ Len(todo) = n
       /\ \A i \in 1 .. n : todo[i] = tokens[2 * i].of
  <2>1. \A x \in 1 .. length : tokens[x] \in Token
    BY <1>6 DEF length
  <2>2. \A x \in 1 .. length : tokens[x].of \in Calls
    BY <2>1 DEF Token
  <2>3. \A i \in 1 .. n : tokens[2 * i].of \in Calls
    BY <1>8, <2>2
  <2>4. /\ todo \in [1 .. n -> Calls]
        /\ \A i \in 1 .. n : todo[i] = tokens[2 * i].of
    BY <2>3
  <2>5. n \in Nat
    BY <1>8
  <2> HIDE DEF todo
  <2>6. todo \in Seq(Calls) /\ Len(todo) = n
    BY <2>4, <2>5
  <2> QED
    BY <2>4, <2>6
<1> HIDE DEF pipe, buffer, todo
<1>12. /\ io'.pipe = pipe /\ io'.buffer = buffer /\ io'.todo = todo
       /\ io'.wrote = io.wrote /\ io'.out = io.out
       /\ io' \in Io
  <2>1. io' = [io EXCEPT !.pipe = pipe, !.buffer = buffer, !.todo = todo]
    BY DEF pipe, buffer, todo, CutsOff
  <2> QED
    BY <1>2, <1>9, <1>10, <1>11, <2>1 DEF Io
<1> DEFINE rest == count - done
<1>13. /\ left + ahead = 2 * rest
       /\ \A k \in 1 .. rest :
            /\ Unread(2 * k - 1) = [of |-> io.wrote[done + k], part |-> "head"]
            /\ Unread(2 * k) = [of |-> io.wrote[done + k], part |-> "body"]
  <2>1. Len(io.todo) = 0 /\ done + Len(io.todo) = done
    BY DEF CutsOff
  <2>2. /\ Len(io.buffer) + Len(io.pipe) = 2 * (Len(io.wrote) - (done + Len(io.todo)))
        /\ \A k \in 1 .. Len(io.wrote) - (done + Len(io.todo)) :
             /\ Unread(2 * k - 1) = [of |-> io.wrote[done + Len(io.todo) + k], part |-> "head"]
             /\ Unread(2 * k) = [of |-> io.wrote[done + Len(io.todo) + k], part |-> "body"]
    BY <1>1 DEF InRow
  <2> QED
    BY <2>1, <2>2 DEF left, ahead, count
<1>14. left + ahead = 2 * rest /\ rest \in Int /\ rest = count - done
  BY <1>3, <1>13
<1> HIDE DEF rest
<1>15. 2 * n <= left + size /\ n \in Nat
  BY <1>6, <1>8
<1>16. /\ left \in Nat /\ ahead \in Nat /\ size \in 1 .. ahead /\ n \in Nat /\ rest \in Int
       /\ left + ahead = 2 * rest /\ 2 * n <= left + size /\ cut = left + size - 2 * n
  BY <1>3, <1>6, <1>14, <1>15
<1> HIDE DEF cut
<1>17. /\ rest \in Nat /\ n <= rest /\ rest - n \in Nat
       /\ cut + (ahead - size) = 2 * (rest - n)
  BY <1>16
<1>18. \A i \in 1 .. 2 * (rest - n) : Unread(i)' = Unread(2 * n + i)
  <2> SUFFICES ASSUME NEW i \in 1 .. 2 * (rest - n) PROVE Unread(i)' = Unread(2 * n + i)
    OBVIOUS
  <2>1. CASE i <= cut
    <3>1. i \in 1 .. cut /\ 2 * n + i \in 1 .. left + size
      BY <1>16, <2>1, CutTokens
    <3>2. Unread(i)' = buffer[i]
      BY <1>10, <1>12, <2>1, Zenon DEF Unread
    <3>3. buffer[i] = tokens[2 * n + i]
      BY <1>10, <3>1, Zenon
    <3>4. tokens[2 * n + i] = Unread(2 * n + i)
      BY <1>7, <3>1, Zenon
    <3> QED
      BY <3>2, <3>3, <3>4, Zenon
  <2>2. CASE ~(i <= cut)
    <3>1. /\ i - cut \in 1 .. ahead - size
          /\ ~(2 * n + i <= left) /\ (2 * n + i) - left = size + (i - cut)
      BY <1>16, <2>2, CutTokens
    <3>2. Unread(i)' = pipe[i - cut]
      BY <1>10, <1>12, <2>2, Zenon DEF Unread
    <3>3. Unread(2 * n + i) = io.pipe[(2 * n + i) - left]
      <4>1. \A x : ~(x <= left) => Unread(x) = io.pipe[x - left]
        BY DEF Unread, left
      <4> QED
        BY <3>1, <4>1
    <3>4. pipe[i - cut] = io.pipe[size + (i - cut)]
      BY <1>9, <3>1, Zenon
    <3> QED
      BY <3>1, <3>2, <3>3, <3>4, Zenon
  <2> QED
    BY <2>1, <2>2
<1>19. InRow(done)'
  <2>1. ASSUME NEW i \in 1 .. n PROVE todo[i] = io.wrote[done + i]
    <3>1. i \in 1 .. rest
      BY <1>15, <1>17
    <3>2. 2 * i \in 1 .. left + size
      BY <1>6, <1>8
    <3>3. tokens[2 * i] = [of |-> io.wrote[done + i], part |-> "body"]
      BY <1>7, <1>13, <3>1, <3>2, Zenon DEF rest
    <3> QED
      <4>1. todo[i] = tokens[2 * i].of
        BY <1>11, Zenon
      <4> QED
        BY <3>3, <4>1
  <2>2. Len(buffer) + Len(pipe) = 2 * (rest - n)
    BY <1>9, <1>10, <1>17, Zenon
  <2>3. ASSUME NEW k \in 1 .. rest - n
        PROVE  /\ Unread(2 * k - 1)' = [of |-> io.wrote[done + n + k], part |-> "head"]
               /\ Unread(2 * k)' = [of |-> io.wrote[done + n + k], part |-> "body"]
    <3>1. /\ n + k \in 1 .. rest
          /\ 2 * k - 1 \in 1 .. 2 * (rest - n) /\ 2 * k \in 1 .. 2 * (rest - n)
          /\ 2 * n + (2 * k - 1) = 2 * (n + k) - 1 /\ 2 * n + 2 * k = 2 * (n + k)
      BY <1>16, <1>17, CutFrames
    <3>2. /\ Unread(2 * (n + k) - 1) = [of |-> io.wrote[done + (n + k)], part |-> "head"]
          /\ Unread(2 * (n + k)) = [of |-> io.wrote[done + (n + k)], part |-> "body"]
      BY <1>13, <3>1, Zenon DEF rest
    <3>3. Unread(2 * k - 1)' = Unread(2 * n + (2 * k - 1)) /\ Unread(2 * k)' = Unread(2 * n + 2 * k)
      BY <1>18, <3>1, Zenon
    <3>4. k \in Int
      BY <1>17
    <3>5. done + (n + k) = done + n + k
      BY <1>15, <3>4
    <3> QED
      BY <3>1, <3>2, <3>3, <3>5, Zenon
  <2>4. Len(io'.todo) = n /\ Len(io'.wrote) = count
    BY <1>11, <1>12, Zenon DEF count
  <2>5. count - (done + n) = rest - n
    BY <1>3, <1>14, <1>15
  <2> QED
    BY <1>12, <2>1, <2>2, <2>3, <2>4, <2>5, Zenon DEF InRow
<1>20. DealtWith(done)' /\ Answers(done)'
  <2>1. \A i \in DOMAIN io.wrote : io.wrote[i] \in Calls
    BY <1>2
  <2>2. DealtWith(done)'
    BY <1>1, <1>12, <2>1 DEF DealtWith, CutsOff
  <2>3. Answers(done)'
    BY <1>1, <1>12 DEF Answers, HasAnswer, Before, CutsOff
  <2> QED
    BY <2>2, <2>3
<1> QED
  BY <1>1, <1>12, <1>19, <1>20 DEF FramesSound

\* A chunk is read and cut.
LEMMA PushKeeps ==
  ASSUME McpInd, StoreSound, Push
  PROVE  McpInd'
<1>1. /\ McpTypeOK /\ FramesSound /\ ToolSound
      /\ \A p \in Calls : CallSound(p) /\ CallTold(p)
  BY DEF McpInd
<1>2. io.todo = <<>>
  BY DEF Push
<1>3. CASE EndsProcess
  BY <1>3, EndKeeps
<1>4. ASSUME UNCHANGED <<storeVars, call, tool, posts>>, NEW size \in 1 .. Len(io.pipe), NEW tokens,
             NEW n \in WholeFrames(tokens), CutsOff(tokens, size, n)
      PROVE  McpInd'
  <2>1. io' \in Io /\ FramesSound'
    BY <1>1, <1>4, ChunkCut
  <2>2. McpTypeOK'
    BY <1>1, <1>4, <2>1 DEF McpTypeOK
  <2>3. tool.at = "none"
    BY <1>1, <1>2 DEF ToolSound
  <2>4. ToolSound'
    BY <1>4, <2>3 DEF ToolSound
  <2>5. ASSUME NEW p \in Calls PROVE CallSound(p)' /\ CallTold(p)'
    <3>1. ~InHand(p) /\ ~InHand(p)'
      BY <1>4, <2>3 DEF InHand
    <3>2. CallSound(p)'
      BY <1>1, <1>4, <3>1 DEF CallSound
    <3>3. CallTold(p)'
      BY <1>4, StoreRests, TellingStays
    <3> QED
      BY <3>2, <3>3
  <2> QED
    BY <2>1, <2>2, <2>4, <2>5 DEF McpInd
<1>5. EndsProcess \/ UNCHANGED <<storeVars, call, tool, posts>>
  BY DEF Push
<1>6. CASE ~EndsProcess
  <2>1. PICK size \in 1 .. Len(io.pipe) :
          \E n \in WholeFrames(io.buffer \o SubSeq(io.pipe, 1, size)) :
            /\ CutsOff(io.buffer \o SubSeq(io.pipe, 1, size), size, n)
            /\ UNCHANGED <<storeVars, call, tool, posts>>
    BY <1>6, Zenon DEF Push, CutsOff
  <2> QED
    BY <1>4, <2>1
<1> QED
  BY <1>3, <1>6

\* The job of a call is committed, or found by its key.
LEMMA JobComes ==
  ASSUME McpInd, NEW r \in Calls, r \in posts, posts' = posts \ {r}, UNCHANGED <<io, tool>>,
         NEW j \in JobIds, call' = [call EXCEPT ![r].job = j],
         idempotency'[<<Client, call[r].key>>] = j,
         \A p \in Calls : p # r /\ call[p].job \in JobIds => Stays(call[p].job)
  PROVE  McpInd'
<1>1. /\ McpTypeOK /\ FramesSound /\ ToolSound
      /\ \A p \in Calls : CallSound(p) /\ CallTold(p)
      /\ call \in [Calls -> Call]
  BY DEF McpInd, McpTypeOK
<1>2. /\ call[r].kind = "run" /\ call[r].at # "unsent" /\ call[r].key \in Keys
      /\ call[r].job = NoJob /\ call[r].answer \in {"none", "error"}
      /\ call[r].at = "sent" => InHand(r)
  BY <1>1 DEF CallSound
<1>3. /\ call' \in [Calls -> Call]
      /\ \A p \in Calls : /\ call'[p].kind = call[p].kind /\ call'[p].key = call[p].key
                          /\ call'[p].at = call[p].at /\ call'[p].answer = call[p].answer
                          /\ call'[p].job = IF p = r THEN j ELSE call[p].job
  BY <1>1 DEF Call
<1>4. McpTypeOK'
  BY <1>1, <1>3 DEF McpTypeOK
<1>5. FramesSound'
  BY <1>1, <1>3, FramesStay
<1>6. ToolSound'
  <2> SUFFICES ASSUME tool.at # "none" PROVE ToolSound'
    BY DEF ToolSound
  <2>1. io.todo # <<>> /\ Head(io.todo) \in Calls
    BY <1>1, HeadIsSent DEF ToolSound
  <2>2. CASE Head(io.todo) = r
    BY <1>1, <1>2, <1>3, <2>1, <2>2, NullsAssumption DEF ToolSound
  <2>3. CASE Head(io.todo) # r
    <3>1. PICK h \in Calls : h = Head(io.todo) /\ h # r
      BY <2>1, <2>3
    <3>2. call'[h].job = call[h].job /\ call'[h].kind = call[h].kind
      BY <1>3, <3>1
    <3>3. ASSUME tool.at = "deciding", tool.view \in TerminalStatus,
                 jobs'[call[h].job].status # "absent"
          PROVE  jobs'[call[h].job].status = tool.view
      <4>1. PICK i \in JobIds : i = call[h].job
        BY <1>1, <3>1, <3>3 DEF ToolSound
      <4> QED
        BY <1>1, <3>1, <3>3, <4>1 DEF ToolSound, Stays, JobExists, IsTerminal
    <3> QED
      BY <1>1, <2>1, <3>1, <3>2, <3>3 DEF ToolSound, JobExists
  <2> QED
    BY <2>2, <2>3
<1>7. ASSUME NEW p \in Calls PROVE CallSound(p)' /\ CallTold(p)'
  <2>1. InHand(p)' <=> InHand(p)
    BY DEF InHand, Turn
  <2>2. CASE p = r
    <3>1. CallSound(r)'
      BY <1>1, <1>2, <1>3, <2>1, <2>2 DEF CallSound
    <3>2. CallTold(r)'
      BY <1>2, <1>3 DEF CallTold, TerminalStatus
    <3> QED
      BY <2>2, <3>1, <3>2
  <2>3. CASE p # r
    <3>1. CallSound(p)'
      BY <1>1, <1>3, <2>1, <2>3 DEF CallSound
    <3>2. CallTold(p)'
      BY <1>3, <2>3, TellingStays
    <3> QED
      BY <3>1, <3>2
  <2> QED
    BY <2>2, <2>3
<1> QED
  BY <1>4, <1>5, <1>6, <1>7 DEF McpInd

\* A POST reaches the gateway.
LEMMA PostKeeps ==
  ASSUME McpInd, StoreSound, NEW r \in Calls, PostArrives(r)
  PROVE  McpInd'
<1> DEFINE key == call[r].key
           ok == <<Client, key>>
<1>1. /\ McpTypeOK /\ FramesSound /\ ToolSound
      /\ \A p \in Calls : CallSound(p) /\ CallTold(p)
  BY DEF McpInd
<1>2. StoreTypeOK /\ IdempotencyConsistent
  BY DEF StoreSound, StoreInv
<1>3. r \in posts /\ posts' = posts \ {r} /\ UNCHANGED <<io, tool>>
  BY DEF PostArrives
<1>4. key \in Keys /\ ok \in Owners \X Keys
  BY <1>1, <1>3, CallsAssumption DEF CallSound
<1>5. ASSUME idempotency[ok] # NoJob, call' = [call EXCEPT ![r].job = idempotency[ok]],
             UNCHANGED storeVars
      PROVE  McpInd'
  <2>1. PICK j \in JobIds : j = idempotency[ok]
    BY <1>2, <1>4, <1>5 DEF StoreTypeOK
  <2>2. \A p \in Calls : p # r /\ call[p].job \in JobIds => Stays(call[p].job)
    BY <1>5, StoreRests
  <2>3. idempotency'[ok] = j /\ call' = [call EXCEPT ![r].job = j]
    BY <1>5, <2>1 DEF storeVars
  <2> QED
    BY <1>3, <2>2, <2>3, JobComes
<1>6. ASSUME NEW j \in JobIds, NEW c \in ConversationIds, \A q \in Calls : call[q].job # j,
             SubmitInference(j, Client, key, c), call' = [call EXCEPT ![r].job = j]
      PROVE  McpInd'
  <2>1. /\ idempotency[ok] = NoJob
        /\ jobs' = [jobs EXCEPT ![j] = NewJob(Client, c, "inference.turn")]
        /\ idempotency' = [idempotency EXCEPT ![ok] = j]
    BY <1>6 DEF SubmitInference, InsertRun, InsertJob
  <2>2. \A i \in JobIds : i # j => jobs'[i] = jobs[i]
    BY <1>2, <2>1 DEF StoreTypeOK
  <2>3. \A other \in Owners \X Keys : other # ok => idempotency'[other] = idempotency[other]
    BY <1>2, <2>1 DEF StoreTypeOK
  <2>4. idempotency'[ok] = j
    BY <1>2, <1>4, <2>1 DEF StoreTypeOK
  <2>5. ASSUME NEW i \in JobIds, i # j PROVE Stays(i)
    <3>1. jobs'[i] = jobs[i]
      BY <2>2, <2>5
    <3>2. ASSUME NEW k \in Keys, idempotency[<<Client, k>>] = i
          PROVE  idempotency'[<<Client, k>>] = i
      <4>1. <<Client, k>> \in Owners \X Keys
        BY CallsAssumption
      <4>2. <<Client, k>> # ok
        BY <2>1, <3>2, NullsAssumption
      <4> QED
        BY <2>3, <3>2, <4>1, <4>2
    <3> QED
      BY <3>1, <3>2 DEF Stays, JobExists
  <2>6. \A p \in Calls : p # r /\ call[p].job \in JobIds => Stays(call[p].job)
    BY <1>6, <2>5
  <2> QED
    BY <1>3, <1>6, <2>4, <2>6, JobComes
<1>7. ASSUME UNCHANGED <<call, storeVars>> PROVE McpInd'
  <2>1. \A j \in JobIds : Stays(j)
    BY <1>7, StoreRests
  <2>2. McpTypeOK'
    BY <1>1, <1>3, <1>7 DEF McpTypeOK
  <2>3. FramesSound'
    BY <1>1, <1>3, <1>7, FramesStay
  <2>4. ToolSound'
    BY <1>3, <1>7, <2>1, ReadingStays
  <2>5. ASSUME NEW p \in Calls PROVE CallSound(p)' /\ CallTold(p)'
    <3>1. CallSound(p)'
      BY <1>1, <1>3, <1>7 DEF CallSound, InHand, Turn
    <3>2. CallTold(p)'
      BY <1>7, <2>1, TellingStays
    <3> QED
      BY <3>1, <3>2
  <2> QED
    BY <2>2, <2>3, <2>4, <2>5 DEF McpInd
<1> QED
  BY <1>5, <1>6, <1>7 DEF PostArrives, KeysSent

\* What is dealt with was written.
LEMMA DoneIsWritten ==
  ASSUME McpTypeOK, NEW done \in Nat, InRow(done)
  PROVE  \A i \in 1 .. done : i \in DOMAIN io.wrote
<1> DEFINE count == Len(io.wrote) next == Len(io.todo)
           left == Len(io.buffer) ahead == Len(io.pipe)
<1>1. /\ count \in Nat /\ next \in Nat /\ left \in Nat /\ ahead \in Nat
      /\ DOMAIN io.wrote = 1 .. count
  BY DEF McpTypeOK, Io
<1>2. left + ahead = 2 * (count - (done + next))
  BY DEF InRow
<1> HIDE DEF count, next, left, ahead
<1>3. done <= count
  BY <1>1, <1>2
<1> QED
  BY <1>1, <1>3

\* Every step.
LEMMA McpStep ==
  ASSUME McpInd, StoreSound, [McpNext]_mcpVars
  PROVE  McpInd'
<1>0. /\ McpTypeOK /\ FramesSound /\ ToolSound
      /\ \A p \in Calls : CallSound(p) /\ CallTold(p)
  BY DEF McpInd
<1>1. ASSUME NEW r \in Calls, WritesRun(r) PROVE McpInd'
  <2>1. PICK k \in Keys : Writes(r, "run", k, NoJob)
    BY <1>1 DEF WritesRun
  <2> QED
    BY <2>1, FrameKeeps DEF Kind
<1>2. ASSUME NEW r \in Calls, WritesGet(r) PROVE McpInd'
  <2>1. PICK j \in JobIds : Writes(r, "get", NoKey, j)
    BY <1>2 DEF WritesGet
  <2> QED
    BY <2>1, FrameKeeps DEF Kind
<1>3. ASSUME NEW r \in Calls, WritesOther(r) PROVE McpInd'
  <2>1. PICK kind \in Kind \ {"run", "get"} : Writes(r, kind, NoKey, NoJob)
    BY <1>3 DEF WritesOther
  <2> QED
    BY <2>1, FrameKeeps DEF Kind
<1>4. ASSUME NEW r \in Calls, Adapter(r) \/ TimePasses(r) PROVE McpInd'
  BY <1>4, AdapterKeeps
<1>5. ASSUME NEW r \in Calls, PostArrives(r) PROVE McpInd'
  BY <1>5, PostKeeps
<1>6. CASE Push
  BY <1>6, PushKeeps
<1>7. CASE Killed
  BY <1>7, EndKeeps DEF Killed
<1>8. CASE GatewayWorks \/ GatewayRestarts
  BY <1>8, GatewayKeeps
<1>9. CASE UNCHANGED mcpVars
  <2>1. UNCHANGED <<storeVars, call, io, tool, posts>>
    BY <1>9 DEF mcpVars
  <2>2. \A j \in JobIds : Stays(j)
    BY <2>1, StoreRests
  <2>3. McpTypeOK'
    BY <1>0, <2>1 DEF McpTypeOK
  <2>4. FramesSound'
    BY <1>0, <2>1, FramesStay
  <2>5. ToolSound'
    BY <2>1, <2>2, ReadingStays
  <2>6. ASSUME NEW p \in Calls PROVE CallSound(p)' /\ CallTold(p)'
    <3>1. CallSound(p)'
      BY <1>0, <2>1 DEF CallSound, InHand, Turn
    <3>2. CallTold(p)'
      BY <2>1, <2>2, TellingStays
    <3> QED
      BY <3>1, <3>2
  <2> QED
    BY <2>3, <2>4, <2>5, <2>6 DEF McpInd
<1> QED
  BY <1>1, <1>2, <1>3, <1>4, <1>5, <1>6, <1>7, <1>8, <1>9 DEF McpNext

\* What the adapter, its client and the network do to the gateway is a call of its own.
LEMMA McpCallsAreAllowed ==
  ASSUME McpInd, [McpNext]_mcpVars
  PROVE  [StoreNext]_storeVars
<1>1. ASSUME NEW r \in Calls, PostArrives(r) PROVE [StoreNext]_storeVars
  <2>1. call[r].key \in Keys
    BY <1>1 DEF PostArrives, McpInd, CallSound
  <2>2. \/ UNCHANGED storeVars
        \/ \E j \in JobIds, c \in ConversationIds : SubmitInference(j, Client, call[r].key, c)
    BY <1>1 DEF PostArrives, KeysSent
  <2> QED
    BY <2>1, <2>2, CallsAssumption DEF StoreNext, GatewayNext, Submit
<1>2. CASE GatewayWorks \/ GatewayRestarts
  BY <1>2 DEF GatewayWorks, GatewayRestarts, StoreNext, GatewayNext
<1>3. ASSUME NEW r \in Calls,
             \/ WritesRun(r) \/ WritesGet(r) \/ WritesOther(r)
             \/ Adapter(r) \/ TimePasses(r)
      PROVE  UNCHANGED storeVars
  BY <1>3 DEF WritesRun, WritesGet, WritesOther, Writes, Adapter, Dispatch, Accepted, RequestFails,
              JobRead, Decides, Wakes, TimePasses, Dispatched, Answered
<1>4. CASE Push \/ Killed
  BY <1>4 DEF Push, Killed, EndsProcess
<1>5. CASE UNCHANGED mcpVars
  BY <1>5 DEF mcpVars
<1> QED
  BY <1>1, <1>2, <1>3, <1>4, <1>5 DEF McpNext

LEMMA McpBegins == McpInit => McpInd /\ StoreSound
<1> SUFFICES ASSUME McpInit PROVE McpInd /\ StoreSound
  OBVIOUS
<1>1. StoreTypeOK /\ StoreInv
  BY StoreInitTypeOK, StoreInitInv DEF McpInit
<1>2. EventLogMatches
  BY LogEmpty, EventLogByRow DEF McpInit, StoreInit, NoJobRow
<1>3. /\ call \in [Calls -> Call]
      /\ \A r \in Calls : /\ call[r].kind = "plain" /\ call[r].job = NoJob
                          /\ call[r].at = "unsent" /\ call[r].answer = "none"
  BY DEF McpInit, Call, Kind, Answer
<1>4. io = NewIo /\ tool = NoTool /\ posts = {}
  BY DEF McpInit
<1>5. McpTypeOK
  <2>1. io \in Io
    BY <1>4 DEF Io, NewIo
  <2>2. tool \in Tool
    BY <1>4 DEF Tool, NoTool
  <2> QED
    BY <1>3, <1>4, <2>1, <2>2 DEF McpTypeOK
<1>6. FramesSound
  <2>1. /\ Len(io.todo) = 0 /\ Len(io.buffer) = 0 /\ Len(io.pipe) = 0 /\ Len(io.wrote) = 0
        /\ DOMAIN io.wrote = {} /\ DOMAIN io.out = {}
    BY <1>4 DEF NewIo
  <2>2. InRow(0)
    BY <2>1 DEF InRow
  <2>3. DealtWith(0)
    BY <2>1 DEF DealtWith
  <2>4. Answers(0)
    <3>1. \A i \in 1 .. 0 : FALSE
      OBVIOUS
    <3> QED
      BY <2>1, <3>1 DEF Answers, HasAnswer
  <2> QED
    BY <2>2, <2>3, <2>4 DEF FramesSound
<1>7. ToolSound
  BY <1>4 DEF ToolSound, NoTool
<1>8. ASSUME NEW r \in Calls PROVE CallSound(r) /\ CallTold(r)
  BY <1>3, <1>4, NullsAssumption DEF CallSound, CallTold
<1> QED
  BY <1>1, <1>2, <1>5, <1>6, <1>7, <1>8 DEF McpInd, StoreSound

LEMMA McpAlways == McpSpec => [](McpInd /\ StoreSound)
<1>1. McpInd /\ StoreSound /\ [McpNext]_mcpVars => McpInd' /\ StoreSound'
  <2> SUFFICES ASSUME McpInd, StoreSound, [McpNext]_mcpVars PROVE McpInd' /\ StoreSound'
    OBVIOUS
  <2>1. [StoreNext]_storeVars
    BY McpCallsAreAllowed
  <2>2. StoreSound'
    BY <2>1, StoreStepTypeOK, StoreStepInv, LogsStayTruthful DEF StoreSound
  <2> QED
    BY <2>2, McpStep
<1> QED
  BY <1>1, McpBegins, PTL DEF McpSpec

-----------------------------------------------------------------------------
(* McpAdapter: the theorems *)

\* The gateway that MCP clients use is the store of the gateway: requests that fail,
\* arrive late or are repeated are calls it allows, so that what is proved of jobs
\* and keys holds with them.
THEOREM McpImplementsStore == McpSpec => StoreSpec
<1>1. McpInit => StoreInit
  BY DEF McpInit
<1> QED
  BY <1>1, McpCallsAreAllowed, McpAlways, PTL DEF McpSpec, StoreSpec

\* The frames of a process are answered in the order they were written, each that
\* asks for an answer at most once and none before those ahead of it.
THEOREM McpCorrect == McpSpec => []McpInv
<1>1. McpInd => McpInv
  <2> SUFFICES ASSUME McpInd PROVE AnswersInOrder
    BY DEF McpInv, McpInd
  <2>1. PICK done \in Nat : InRow(done) /\ DealtWith(done) /\ Answers(done)
    BY DEF McpInd, FramesSound
  <2>2. \A i \in 1 .. done : i \in DOMAIN io.wrote
    BY <2>1, DoneIsWritten DEF McpInd
  <2>3. io.wrote \in Seq(Calls)
    BY DEF McpInd, McpTypeOK, Io
  <2>4. ASSUME NEW r \in Calls, HasAnswer(r) PROVE Written(r) /\ call[r].kind # "silent"
    BY <2>1, <2>2, <2>4 DEF Answers, Written
  <2>5. ASSUME NEW q \in Calls, NEW r \in Calls, Before(q, r), HasAnswer(r), call[q].kind # "silent"
        PROVE  HasAnswer(q)
    <3>1. PICK i \in DOMAIN io.wrote, k \in DOMAIN io.wrote :
            i < k /\ io.wrote[i] = q /\ io.wrote[k] = r
      BY <2>5 DEF Before
    <3>2. PICK n \in 1 .. done : io.wrote[n] = r
      BY <2>1, <2>5 DEF Answers
    <3>3. n = k
      BY <2>1, <2>2, <3>1, <3>2 DEF DealtWith
    <3>4. i \in Nat /\ k \in Nat /\ 1 <= i
      BY <2>3, <3>1
    <3>5. i \in 1 .. done
      BY <3>1, <3>2, <3>3, <3>4
    <3> QED
      BY <2>1, <2>5, <3>1, <3>5 DEF Answers
  <2> QED
    BY <2>1, <2>4, <2>5 DEF AnswersInOrder, Answers
<1> QED
  BY <1>1, McpAlways, PTL

\* Whatever was lost, repeated or late, what a tool told of a job stays true of it,
\* and a run names the job its key stands for.
THEOREM ToolsTruthful == McpSpec => []ToolTruthful
<1>1. McpInd => ToolTruthful
  <2> SUFFICES ASSUME McpInd, NEW r \in Calls,
                      call[r].answer \notin {"none", "plain", "error"}, JobExists(call[r].job)
               PROVE  /\ call[r].answer \in TerminalStatus =>
                           call[r].answer = jobs[call[r].job].status
                      /\ call[r].kind = "run" => idempotency[<<Client, call[r].key>>] = call[r].job
    BY DEF ToolTruthful
  <2> QED
    BY DEF McpInd, CallTold
<1> QED
  BY <1>1, McpAlways, PTL
=============================================================================
