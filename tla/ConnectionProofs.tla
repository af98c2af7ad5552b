-------------------------- MODULE ConnectionProofs --------------------------
(***************************************************************************)
(* Theorems about Connection, for any number of messages and packets: who  *)
(* writes, who owns the input buffer, and what the written stream is.      *)
(***************************************************************************)
EXTENDS Connection, SequenceTheorems, TLAPS

-----------------------------------------------------------------------------
(* Writing.                                                                *)

\* Facts about sequences that the steps below share.
LEMMA SequenceFacts ==
  ASSUME NEW S, NEW s \in Seq(S)
  PROVE  /\ Len(s) \in Nat
         /\ s = << >> <=> Len(s) = 0
         /\ s # << >> => Head(s) \in S /\ s[Len(s)] \in S /\ Tail(s) \in Seq(S)
         /\ Len(s) = 1 => Tail(s) = << >>
  <1>1. s # << >> => Len(s) > 0 /\ Head(s) \in S /\ Tail(s) \in Seq(S)
                       /\ Len(Tail(s)) = Len(s) - 1
    BY EmptySeq, HeadTailProperties
  <1>2. Len(s) \in Nat /\ Len(<< >>) = 0
    BY EmptySeq, LenProperties
  <1>3. s # << >> => s[Len(s)] \in S
    BY <1>1, <1>2, ElementOfSeq
  <1>4. ASSUME Len(s) = 1 PROVE Tail(s) = << >>
    <2>1. Tail(s) \in Seq(S) /\ Len(Tail(s)) = 0
      BY <1>1, <1>2, <1>4
    <2> QED
      BY <2>1, EmptySeq
  <1> QED
    BY <1>1, <1>2, <1>3, <1>4

\* Arithmetic that the solver finds only when it is asked for nothing else.
LEMMA OneLeft ==
  \A p, w \in Nat, q \in {0, 1} : p + w = q /\ w > 0 => q = 1 /\ p = 0 /\ w = 1
  OBVIOUS

LEMMA OnlyOne == \A n : n = 1 => n <= 1
  OBVIOUS

\* A message in hand is what messageQueue is not empty for: with the types, and
\* the message encoded last, SingleWriter is inductive.
WriteInv ==
  /\ posted \in Nat
  /\ sent \in 0 .. MaxMessages
  /\ messageQueue \in Seq(1 .. MaxMessages)
  /\ writes \in Seq(1 .. MaxMessages)
  /\ encoded \in Seq(1 .. MaxMessages)
  /\ encoding \in BOOLEAN
  /\ encoding => encoded # << >>
  /\ SingleWriter

\* Queueing a message behind others changes no front; the first one posts.
LEMMA QueueKeeps ==
  ASSUME WriteInv, sent < MaxMessages, Queue, UNCHANGED <<encoding, writes, encoded>>
  PROVE  WriteInv'
  <1> DEFINE m == sent + 1
  <1>1. /\ m \in 1 .. MaxMessages /\ sent' \in 0 .. MaxMessages
        /\ messageQueue' \in Seq(1 .. MaxMessages) /\ messageQueue' # << >>
    BY ConnectionAssumption DEF WriteInv, Queue
  <1>2. CASE messageQueue = << >>
    <2>1. posted = 0 /\ ~encoding /\ Len(writes) = 0
      BY <1>2 DEF WriteInv, SingleWriter, Count
    <2> QED
      BY <1>1, <1>2, <2>1 DEF WriteInv, SingleWriter, Count, Queue, PostOnEmpty
  <1>3. CASE messageQueue # << >>
    <2>1. Head(messageQueue') = Head(messageQueue) /\ posted' = posted
      BY <1>3 DEF WriteInv, Queue, PostOnEmpty
    <2> QED
      BY <1>1, <1>3, <2>1 DEF WriteInv, SingleWriter, Count, Queue
  <1> QED
    BY <1>2, <1>3

\* NextMessage puts the front of the next queue, if any, in hand.
LEMMA NextMessageKeeps ==
  ASSUME WriteInv, NextMessage, messageQueue' \in Seq(1 .. MaxMessages),
         posted' = 0, writes' = << >>, sent' = sent
  PROVE  WriteInv'
  <1>1. CASE messageQueue' = << >>
    <2>1. encoding' = FALSE /\ encoded' = encoded
      BY <1>1 DEF NextMessage
    <2>2. << >> \in Seq(1 .. MaxMessages) /\ Len(<< >>) = 0
      BY EmptySeq
    <2>3. Count(encoding') = 0 /\ Count(messageQueue' # << >>) = 0
      BY <1>1, <2>1 DEF Count
    <2>4. SingleWriter'
      BY <2>1, <2>2, <2>3 DEF SingleWriter
    <2> QED
      BY <1>1, <2>1, <2>2, <2>4 DEF WriteInv
  <1>2. CASE messageQueue' # << >>
    <2>1. Head(messageQueue') \in 1 .. MaxMessages
      BY <1>2, SequenceFacts
    <2>2. encoded' = Append(encoded, Head(messageQueue')) /\ encoding' = TRUE
      BY <1>2 DEF NextMessage
    <2>3. /\ encoded' \in Seq(1 .. MaxMessages) /\ encoded' # << >>
          /\ encoded'[Len(encoded')] = Head(messageQueue')
      BY <2>1, <2>2 DEF WriteInv
    <2> QED
      BY <1>2, <2>2, <2>3 DEF WriteInv, SingleWriter, Count, Last
  <1> QED
    BY <1>1, <1>2

\* A step that leaves the writer alone.
LEMMA WriterAlone ==
  ASSUME WriteInv, UNCHANGED writeVars
  PROVE  WriteInv'
  BY DEF WriteInv, SingleWriter, Count, writeVars

LEMMA NextKeepsWriteInv == WriteInv /\ [Next]_vars => WriteInv'
  <1> SUFFICES ASSUME WriteInv, [Next]_vars
               PROVE  WriteInv'
    OBVIOUS
  <1>1. CASE Send
    BY <1>1, QueueKeeps DEF Send
  <1>2. CASE IoHandler
    <2>1. CASE InternalWorker
      <3>1. ~encoding /\ posted > 0
        BY <2>1 DEF InternalWorker, IoIdle
      <3>2. posted = 1 /\ Len(writes) = 0
        BY <3>1 DEF WriteInv, SingleWriter, Count
      <3>3. posted' = 0 /\ writes' = << >>
        BY <2>1, <3>2 DEF InternalWorker, WriteInv
      <3> QED
        BY <2>1, <3>3, NextMessageKeeps DEF InternalWorker, WriteInv
    <2>2. CASE InternalSend
      <3>1. /\ encoding /\ ~encoding' /\ encoded # << >> /\ encoded' = encoded
            /\ messageQueue' = messageQueue /\ posted' = posted /\ sent' = sent
            /\ writes' = Append(writes, Last(encoded))
        BY <2>2 DEF InternalSend, WriteInv
      <3>2. posted = 0 /\ Len(writes) = 0 /\ messageQueue # << >>
        BY <3>1 DEF WriteInv, SingleWriter, Count
      <3>3. Last(encoded) \in 1 .. MaxMessages /\ Last(encoded) = Head(messageQueue)
        BY <3>1, SequenceFacts DEF WriteInv, SingleWriter, Last
      <3>4. writes' = <<Last(encoded)>>
        BY <3>1, <3>2 DEF WriteInv
      <3>5. encoding' \in BOOLEAN
        BY <2>2 DEF InternalSend
      <3> QED
        BY <3>1, <3>2, <3>3, <3>4, <3>5 DEF WriteInv, SingleWriter, Count
    <2>3. CASE WriteDone
      <3>1. /\ writes # << >> /\ ~encoding /\ posted' = posted /\ sent' = sent
            /\ writes' = Tail(writes) /\ messageQueue' = Tail(messageQueue)
        BY <2>3 DEF WriteDone, IoIdle
      <3>2. Len(writes) \in Nat /\ Len(writes) > 0
        BY <3>1, SequenceFacts DEF WriteInv
      <3>3. posted = 0 /\ Len(writes) = 1 /\ messageQueue # << >>
        <4> DEFINE e == Count(encoding)
                   q == Count(messageQueue # << >>)
        <4>1. e = 0 /\ q \in {0, 1} /\ (q = 1 => messageQueue # << >>)
          BY <3>1 DEF Count
        <4>2. posted \in Nat /\ posted + e + Len(writes) = q
          BY DEF WriteInv, SingleWriter
        <4> HIDE DEF e, q
        <4>3. posted + Len(writes) = q
          BY <3>2, <4>1, <4>2
        <4>4. q = 1 /\ posted = 0 /\ Len(writes) = 1
          BY <3>2, <4>1, <4>2, <4>3, OneLeft
        <4> QED
          BY <4>1, <4>4
      <3>4. writes' = << >> /\ messageQueue' \in Seq(1 .. MaxMessages)
        BY <3>1, <3>3, SequenceFacts DEF WriteInv
      <3> QED
        BY <2>3, <3>1, <3>3, <3>4, NextMessageKeeps DEF WriteDone
    <2>4. CASE WriteFails
      <3>1. /\ writes # << >> /\ ~encoding /\ writes' = Tail(writes)
            /\ messageQueue' = << >> /\ encoding' = encoding /\ encoded' = encoded
            /\ posted' = posted /\ sent' = sent
        BY <2>4 DEF WriteFails, IoIdle
      <3>2. Len(writes) \in Nat /\ Len(writes) > 0
        BY <3>1, SequenceFacts DEF WriteInv
      <3>3. posted = 0 /\ Len(writes) = 1
        <4> DEFINE e == Count(encoding)
                   q == Count(messageQueue # << >>)
        <4>1. e = 0 /\ q \in {0, 1} /\ (q = 1 => messageQueue # << >>)
          BY <3>1 DEF Count
        <4>2. posted \in Nat /\ posted + e + Len(writes) = q
          BY DEF WriteInv, SingleWriter
        <4> HIDE DEF e, q
        <4>3. posted + Len(writes) = q
          BY <3>2, <4>1, <4>2
        <4>4. q = 1 /\ posted = 0 /\ Len(writes) = 1
          BY <3>2, <4>1, <4>2, <4>3, OneLeft
        <4> QED
          BY <4>1, <4>4
      <3>4. writes' = << >>
        BY <3>1, <3>3, SequenceFacts DEF WriteInv
      <3>5. << >> \in Seq(1 .. MaxMessages) /\ Len(<< >>) = 0
        BY EmptySeq
      <3> QED
        BY <3>1, <3>3, <3>4, <3>5 DEF WriteInv, SingleWriter, Count
    <2> QED
      BY <1>2, <2>1, <2>2, <2>3, <2>4 DEF IoHandler
  <1>3. CASE ParseFirst
    BY <1>3, QueueKeeps, WriterAlone DEF ParseFirst
  <1>4. CASE IoReader /\ ~ParseFirst
    BY <1>4, WriterAlone
    DEF IoReader, ParseProxy, ParseProxyRefused, ParseRest, ParseHeader, NoProtocol,
        ParsePacket, Quiet
  <1>5. CASE Disconnect \/ ReadEnds \/ Timeout \/ Parse \/ ResumeWork \/ Release
                 \/ Reset \/ Destroy
    BY <1>5, WriterAlone
    DEF Disconnect, ReadEnds, Quiet, Timeout, ReadTimeout, WriteTimeout, Parse,
        ResumeWork, Release, Reset, Destroy
  <1>6. CASE UNCHANGED vars
    BY <1>6, WriterAlone DEF vars
  <1> QED
    BY <1>1, <1>2, <1>3, <1>4, <1>5, <1>6 DEF Next, IoReader

THEOREM WriteInvariant == Spec => []WriteInv
  <1>1. Init => WriteInv
    <2> SUFFICES ASSUME Init
                 PROVE  WriteInv
      OBVIOUS
    <2>1. << >> \in Seq(1 .. MaxMessages) /\ Len(<< >>) = 0
      BY EmptySeq
    <2>2. Count(encoding) = 0 /\ Count(messageQueue # << >>) = 0
      BY DEF Init, Count
    <2>3. SingleWriter
      BY <2>1, <2>2 DEF Init, SingleWriter
    <2>4. 0 \in 0 .. MaxMessages
      BY ConnectionAssumption
    <2> QED
      BY <2>1, <2>3, <2>4 DEF Init, WriteInv
  <1> QED
    BY <1>1, NextKeepsWriteInv, PTL DEF Spec

\* A queue that is not empty has exactly one worker, encoding or write, and the
\* message in hand stays at its front.
THEOREM SingleWriterHolds == Spec => []SingleWriter
  <1>1. WriteInv => SingleWriter
    BY DEF WriteInv
  <1> QED
    BY WriteInvariant, <1>1, PTL

-----------------------------------------------------------------------------
(* Reading.                                                                *)

What == {"proxy", "rest", "header", "body"}

\* BufferOwned and NeverDeaf, with the types they need, are inductive: every
\* step that ends a read starts one, hands the buffer over, or closes.
ReadInv ==
  /\ reads \in Seq(What)
  /\ parses \in Nat
  /\ BufferOwned
  /\ NeverDeaf

\* A handler that starts another read keeps the number of the buffer's owners.
LEMMA ReadNextKeeps ==
  ASSUME ReadInv, NEW what \in What, reads # << >>, ReadNext(what),
         UNCHANGED <<parses, parsing>>
  PROVE  ReadInv'
  BY DEF ReadInv, ReadNext, BufferOwned, NeverDeaf, Count, What

\* A handler that closes gives the buffer up.
LEMMA CloseAfterReadKeeps ==
  ASSUME ReadInv, NEW force \in BOOLEAN, reads # << >>, CloseAfterRead(force),
         UNCHANGED <<parses, parsing>>
  PROVE  ReadInv'
  BY DEF ReadInv, CloseAfterRead, Close, BufferOwned, NeverDeaf, Count, Closed, What

\* A close leaves the buffer with its owner.
LEMMA CloseKeeps ==
  ASSUME ReadInv, connectionState' = "closed", UNCHANGED <<reads, parses, parsing>>
  PROVE  ReadInv'
  BY DEF ReadInv, BufferOwned, NeverDeaf, Count, Closed

\* A step that neither opens nor reads, and keeps the timer of an open connection.
LEMMA OtherKeeps ==
  ASSUME ReadInv, ~Closed' => ~Closed, ~Closed' => readTimer' = readTimer,
         UNCHANGED <<reads, parses, parsing>>
  PROVE  ReadInv'
  BY DEF ReadInv, BufferOwned, NeverDeaf, Count

\* The socket is open or it is not: what makes the timers of an open connection
\* survive the end of a write.
SocketTyped == socket \in BOOLEAN

LEMMA NextKeepsSocket == SocketTyped /\ [Next]_vars => SocketTyped'
  BY DEF SocketTyped, Next, vars, Send, IoHandler, IoReader, InternalWorker, InternalSend, WriteDone,
     WriteFails, NextMessage, CancelIfClosed, Close, CloseNow, CloseAfterRead, ParseProxy,
     ParseProxyRefused, ParseRest, ParseHeader, ParseFirst, NoProtocol, ParsePacket,
     Received, ReadNext, NoRead, Quiet, Disconnect, ReadEnds, Timeout, ReadTimeout,
     WriteTimeout, Parse, ResumeWork, Release, Reset, Destroy

LEMMA TimerOfOpen ==
  ASSUME ReadInv, SocketTyped, NextMessage,
         UNCHANGED <<connectionState, reads, parses, parsing>>
  PROVE  ReadInv'
  <1>1. CASE Closed
    BY <1>1 DEF ReadInv, BufferOwned, NeverDeaf, Count, Closed
  <1>2. CASE ~Closed
    <2>1. socket' = socket
      BY <1>2 DEF NextMessage, SocketTyped
    <2>2. readTimer'
      BY <1>2, <2>1 DEF NextMessage, CancelIfClosed, ReadInv, NeverDeaf
    <2> QED
      BY <1>2, <2>2 DEF ReadInv, BufferOwned, NeverDeaf, Count, Closed
  <1> QED
    BY <1>1, <1>2

LEMMA NextKeepsReadInv == ReadInv /\ SocketTyped /\ [Next]_vars => ReadInv'
  <1> SUFFICES ASSUME ReadInv, SocketTyped, [Next]_vars
               PROVE  ReadInv'
    OBVIOUS
  <1>1. CASE Send
    BY <1>1, OtherKeeps DEF Send, readVars, closeVars, Closed
  <1>2. CASE Disconnect
    BY <1>2, CloseKeeps DEF Disconnect, Close, readVars
  <1>3. CASE IoHandler
    <2>1. CASE InternalWorker
      BY <2>1, TimerOfOpen DEF InternalWorker, readVars, closeVars
    <2>2. CASE InternalSend
      BY <2>2, OtherKeeps DEF InternalSend, readVars, closeVars, Closed
    <2>3. CASE WriteDone
      BY <2>3, TimerOfOpen DEF WriteDone, readVars, closeVars
    <2>4. CASE WriteFails
      BY <2>4, CloseKeeps DEF WriteFails, Close, readVars
    <2> QED
      BY <1>3, <2>1, <2>2, <2>3, <2>4 DEF IoHandler
  <1>4. CASE IoReader
    <2>1. CASE ParseProxy
      <3>1. \E what \in What : ReadNext(what)
        BY <2>1 DEF ParseProxy, What
      <3> QED
        BY <2>1, <3>1, ReadNextKeeps DEF ParseProxy, Received, Quiet
    <2>2. CASE ParseProxyRefused
      BY <2>2, CloseAfterReadKeeps DEF ParseProxyRefused, Received, Quiet
    <2>3. CASE ParseRest
      BY <2>3, ReadNextKeeps, CloseAfterReadKeeps DEF ParseRest, Received, Quiet, What
    <2>4. CASE ParseHeader
      BY <2>4, ReadNextKeeps, CloseAfterReadKeeps DEF ParseHeader, Received, Quiet, What
    <2>5. CASE ParseFirst
      BY <2>5, ReadNextKeeps DEF ParseFirst, Received, What
    <2>6. CASE NoProtocol
      BY <2>6, CloseAfterReadKeeps DEF NoProtocol, Received
    <2>7. CASE ParsePacket
      <3>1. CASE ReadNext("header") /\ UNCHANGED parses
        BY <2>7, <3>1, ReadNextKeeps DEF ParsePacket, Received, What
      <3>2. CASE NoRead /\ parses' = parses + 1
        BY <2>7, <3>2
        DEF ParsePacket, Received, NoRead, ReadInv, BufferOwned, NeverDeaf, Count, What,
            Closed, closeVars
      <3> QED
        BY <2>7, <3>1, <3>2 DEF ParsePacket
    <2> QED
      BY <1>4, <2>1, <2>2, <2>3, <2>4, <2>5, <2>6, <2>7 DEF IoReader
  <1>5. CASE ReadEnds
    BY <1>5, CloseAfterReadKeeps DEF ReadEnds, Quiet
  <1>6. CASE Timeout
    BY <1>6, CloseKeeps DEF Timeout, ReadTimeout, WriteTimeout, Close, readVars
  <1>7. CASE Parse
    <2>1. ~Closed' => parsing'
      BY <1>7 DEF Parse, Alive, closeVars, Closed
    <2> QED
      BY <1>7, <2>1
      DEF Parse, ReadInv, BufferOwned, NeverDeaf, Count, closeVars, Closed
  <1>8. CASE ResumeWork
    BY <1>8 DEF ResumeWork, ReadInv, BufferOwned, NeverDeaf, Count, What, closeVars, Closed
  <1>9. CASE Release
    BY <1>9, OtherKeeps DEF Release, readVars, Closed
  <1>10. CASE Reset
    BY <1>10, OtherKeeps DEF Reset, readVars, closeVars, Closed
  <1>11. CASE Destroy
    BY <1>11, OtherKeeps DEF Destroy, Alive, readVars, closeVars, Closed
  <1>12. CASE UNCHANGED vars
    BY <1>12, OtherKeeps DEF vars, readVars, closeVars, Closed
  <1> QED
    BY <1>1, <1>2, <1>3, <1>4, <1>5, <1>6, <1>7, <1>8, <1>9, <1>10, <1>11, <1>12 DEF Next

THEOREM ReadInvariant == Spec => []ReadInv
  <1>1. Init => ReadInv
    <2>1. <<"proxy">> \in Seq(What) /\ <<"header">> \in Seq(What)
      BY DEF What
    <2>2. Init => reads \in Seq(What) /\ Len(reads) = 1
      BY <2>1 DEF Init
    <2> DEFINE p == Count(parsing)
    <2>3. Init => p = 0
      BY DEF Init, Count
    <2>4. Init => parses = 0 /\ readTimer
      BY DEF Init
    <2> HIDE DEF p
    <2>5. Init => Len(reads) + parses + p = 1
      BY <2>2, <2>3, <2>4
    <2>6. Init => BufferOwned
      BY <2>5, OnlyOne DEF BufferOwned, p
    <2>7. Init => NeverDeaf
      BY <2>4, <2>5 DEF NeverDeaf, p
    <2> QED
      BY <2>2, <2>4, <2>6, <2>7 DEF ReadInv
  <1>2. Init => SocketTyped
    BY DEF Init, SocketTyped
  <1> QED
    BY <1>1, <1>2, NextKeepsReadInv, NextKeepsSocket, PTL DEF Spec

\* The input buffer has one owner at a time: an async_read, or one parse event.
THEOREM BufferOwnedHolds == Spec => []BufferOwned
  <1>1. ReadInv => BufferOwned
    BY DEF ReadInv
  <1> QED
    BY ReadInvariant, <1>1, PTL

\* An open connection always has a reader or a parser, and its timer.
THEOREM NeverDeafHolds == Spec => []NeverDeaf
  <1>1. ReadInv => NeverDeaf
    BY DEF ReadInv
  <1> QED
    BY ReadInvariant, <1>1, PTL

Numbered(s) == \A i \in 1 .. Len(s) : s[i] = i

\* The message that has been given to onSendMessage and is not written.
InHand == IF encoding \/ writes # << >> THEN 1 ELSE 0

\* While messages can flow, the history and the queue account for every message
\* sent: a failed write, which empties the queue, happens once, and closes.
Flow ==
  messageQueue # << >> \/ ~Closed =>
    /\ Len(written) = sent - Len(messageQueue)
    /\ Len(encoded) = Len(written) + InHand

StreamInv ==
  /\ written \in Seq(1 .. MaxMessages)
  /\ Numbered(encoded) /\ Numbered(written)
  /\ Len(written) <= Len(encoded)
  /\ \A i \in 1 .. Len(messageQueue) : messageQueue[i] = sent - Len(messageQueue) + i
  /\ Flow

\* The types that WriteInv, ReadInv and StreamInv do not give.
FlagTypes ==
  /\ connectionState \in {"identifying", "readings", "open", "closed"}
  /\ socket \in BOOLEAN /\ protocol \in BOOLEAN /\ broken \in BOOLEAN
  /\ parsing \in BOOLEAN /\ readTimer \in BOOLEAN
  /\ receivedFirst \in BOOLEAN /\ graceful \in BOOLEAN
  /\ packets \in 0 .. MaxPackets
  /\ release \in {"none", "posted", "done", "dropped"}

\* Only a closed connection has given its socket back; and after a close that
\* was not forced nothing is lost while the peer is there.
DrainInv ==
  /\ graceful => Closed
  /\ ~socket => Closed
  /\ graceful /\ ~broken => Len(written) + Len(messageQueue) = sent
  /\ graceful /\ ~broken /\ ~socket => messageQueue = << >>
-----------------------------------------------------------------------------
(* Facts about sequences and about who has the front message.              *)

LEMMA AppendNumber ==
  ASSUME NEW S, NEW s \in Seq(S), NEW x \in S, Numbered(s), x = Len(s) + 1
  PROVE  Append(s, x) \in Seq(S) /\ Numbered(Append(s, x)) /\ Len(Append(s, x)) = Len(s) + 1
  BY DEF Numbered

LEMMA NoMessage ==
  ASSUME NEW S PROVE << >> \in Seq(S) /\ Len(<< >>) = 0 /\ Numbered(<< >>)
  BY EmptySeq DEF Numbered

LEMMA OneInHand ==
  \A p, w \in Nat, c, q \in {0, 1} :
    p + c + w = q => /\ w > 0 => q = 1 /\ p = 0 /\ c = 0 /\ w = 1
                     /\ p > 0 => q = 1 /\ p = 1 /\ c = 0 /\ w = 0
  OBVIOUS

\* A write under way is the only thing in hand.
LEMMA WriteAlone ==
  ASSUME WriteInv, writes # << >>
  PROVE  /\ posted = 0 /\ ~encoding /\ messageQueue # << >>
         /\ Len(writes) = 1 /\ Tail(writes) = << >> /\ Head(writes) = Head(messageQueue)
  <1> DEFINE c == Count(encoding)
             q == Count(messageQueue # << >>)
  <1>1. /\ c \in {0, 1} /\ (c = 0 => ~encoding)
        /\ q \in {0, 1} /\ (q = 1 => messageQueue # << >>)
    BY DEF Count
  <1>2. posted \in Nat /\ posted + c + Len(writes) = q
    BY DEF WriteInv, SingleWriter
  <1>3. Len(writes) \in Nat /\ Len(writes) > 0
    BY SequenceFacts DEF WriteInv
  <1> HIDE DEF c, q
  <1>4. q = 1 /\ posted = 0 /\ c = 0 /\ Len(writes) = 1
    BY <1>1, <1>2, <1>3, OneInHand
  <1>5. Tail(writes) = << >>
    BY <1>4, SequenceFacts DEF WriteInv
  <1> QED
    BY <1>1, <1>4, <1>5 DEF WriteInv, SingleWriter

\* A worker that was posted and has not run has the queue to itself.
LEMMA WorkerAlone ==
  ASSUME WriteInv, posted > 0
  PROVE  posted = 1 /\ ~encoding /\ writes = << >> /\ messageQueue # << >>
  <1> DEFINE c == Count(encoding)
             q == Count(messageQueue # << >>)
  <1>1. /\ c \in {0, 1} /\ (c = 0 => ~encoding)
        /\ q \in {0, 1} /\ (q = 1 => messageQueue # << >>)
    BY DEF Count
  <1>2. posted \in Nat /\ posted + c + Len(writes) = q
    BY DEF WriteInv, SingleWriter
  <1>3. Len(writes) \in Nat /\ (Len(writes) = 0 => writes = << >>)
    BY SequenceFacts DEF WriteInv
  <1> HIDE DEF c, q
  <1>4. q = 1 /\ posted = 1 /\ c = 0 /\ Len(writes) = 0
    BY <1>1, <1>2, <1>3, OneInHand
  <1> QED
    BY <1>1, <1>3, <1>4

\* Nobody has anything in hand of an empty queue only.
LEMMA NobodyWrites ==
  ASSUME WriteInv, posted = 0, ~encoding, writes = << >>
  PROVE  messageQueue = << >>
  <1> DEFINE q == Count(messageQueue # << >>)
  <1>1. Count(encoding) = 0 /\ Len(writes) = 0
    BY NoMessage DEF Count
  <1>2. q = 0
    BY <1>1 DEF WriteInv, SingleWriter
  <1> QED
    BY <1>2 DEF Count

\* The front of the queue and what is behind it.
LEMMA FrontNumber ==
  ASSUME NEW q \in Seq(1 .. MaxMessages), q # << >>, NEW n \in Nat,
         \A i \in 1 .. Len(q) : q[i] = n - Len(q) + i
  PROVE  /\ Head(q) \in 1 .. MaxMessages /\ Head(q) = n - Len(q) + 1
         /\ Tail(q) \in Seq(1 .. MaxMessages) /\ Len(Tail(q)) = Len(q) - 1
         /\ \A i \in 1 .. Len(Tail(q)) : Tail(q)[i] = n - Len(Tail(q)) + i
  <1>1. Len(q) \in Nat \ {0}
    BY EmptySeq
  <1>2. Head(q) \in 1 .. MaxMessages /\ Tail(q) \in Seq(1 .. MaxMessages)
        /\ Len(Tail(q)) = Len(q) - 1
    BY HeadTailProperties
  <1>3. Head(q) = q[1] /\ \A i \in 1 .. Len(Tail(q)) : Tail(q)[i] = q[i + 1]
    BY <1>1, <1>2
  <1> QED
    BY <1>1, <1>2, <1>3

-----------------------------------------------------------------------------
(* The messages encoded and written are numbered.                          *)

\* NextMessage encodes the message that comes after those written.
LEMMA NextMessageStream ==
  ASSUME NextMessage, sent \in Nat, sent' = sent, writes' = << >>,
         messageQueue' \in Seq(1 .. MaxMessages), encoded \in Seq(1 .. MaxMessages),
         written' \in Seq(1 .. MaxMessages), Numbered(encoded), Numbered(written'),
         Len(encoded) = Len(written'), Len(written') = sent - Len(messageQueue'),
         \A i \in 1 .. Len(messageQueue') : messageQueue'[i] = sent - Len(messageQueue') + i
  PROVE  StreamInv'
  <1>1. Len(encoded) \in Nat /\ Len(written') \in Nat /\ Len(messageQueue') \in Nat
    BY SequenceFacts
  <1>2. CASE messageQueue' = << >>
    <2>1. ~encoding' /\ encoded' = encoded /\ InHand' = 0
      BY <1>2 DEF NextMessage, InHand
    <2> QED
      BY <1>1, <2>1 DEF StreamInv, Flow, Numbered
  <1>3. CASE messageQueue' # << >>
    <2>1. encoded' = Append(encoded, Head(messageQueue')) /\ InHand' = 1
      BY <1>3 DEF NextMessage, InHand
    <2>2. Head(messageQueue') \in 1 .. MaxMessages /\ Head(messageQueue') = Len(encoded) + 1
      BY <1>1, <1>3, FrontNumber
    <2>3. Numbered(encoded') /\ Len(encoded') = Len(encoded) + 1
      BY <2>1, <2>2, AppendNumber
    <2> QED
      BY <1>1, <2>1, <2>3 DEF StreamInv, Flow, Numbered
  <1> QED
    BY <1>2, <1>3

LEMMA QueueStream ==
  ASSUME WriteInv, StreamInv, ~Closed, sent < MaxMessages, Queue,
         UNCHANGED <<encoding, writes, encoded, written>>
  PROVE  /\ StreamInv'
         /\ Len(written') + Len(messageQueue') = sent' /\ messageQueue' # << >>
  <1>1. /\ Len(messageQueue') = Len(messageQueue) + 1 /\ messageQueue' # << >>
        /\ \A i \in 1 .. Len(messageQueue) : messageQueue'[i] = messageQueue[i]
        /\ messageQueue'[Len(messageQueue) + 1] = sent + 1
    BY DEF Queue, WriteInv
  <1>2. Len(messageQueue) \in Nat /\ Len(written) \in Nat /\ Len(encoded) \in Nat
        /\ sent \in Nat /\ sent' = sent + 1
    BY SequenceFacts DEF WriteInv, StreamInv, Queue
  <1>3. ASSUME NEW i \in 1 .. Len(messageQueue')
        PROVE  messageQueue'[i] = sent' - Len(messageQueue') + i
    BY <1>1, <1>2, <1>3 DEF StreamInv
  <1>4. InHand' = InHand /\ Len(written) = sent - Len(messageQueue)
        /\ Len(encoded) = Len(written) + InHand
    BY DEF InHand, StreamInv, Flow
  <1>5. Len(written') = sent' - Len(messageQueue') /\ Len(encoded') = Len(written') + InHand'
    BY <1>1, <1>2, <1>4
  <1>6. StreamInv'
    BY <1>3, <1>5 DEF StreamInv, Flow, Numbered
  <1> QED
    BY <1>1, <1>2, <1>5, <1>6

\* A step that leaves the writer alone and opens nothing.
LEMMA StreamAlone ==
  ASSUME StreamInv, UNCHANGED writeVars, ~Closed' => ~Closed
  PROVE  StreamInv'
  BY DEF StreamInv, Flow, InHand, Numbered, writeVars

LEMMA IoHandlerStream ==
  ASSUME WriteInv, StreamInv, IoHandler
  PROVE  StreamInv'
  <1>0. /\ sent \in Nat /\ Len(messageQueue) \in Nat /\ Len(written) \in Nat
        /\ Len(encoded) \in Nat
    BY SequenceFacts DEF WriteInv, StreamInv
  <1>1. CASE InternalWorker
    <2>1. posted = 1 /\ ~encoding /\ writes = << >> /\ messageQueue # << >>
      BY <1>1, WorkerAlone DEF InternalWorker
    <2>2. Len(written) = sent - Len(messageQueue) /\ Len(encoded) = Len(written)
      BY <1>0, <2>1 DEF StreamInv, Flow, InHand
    <2> QED
      BY <1>0, <1>1, <2>1, <2>2, NextMessageStream DEF InternalWorker, WriteInv, StreamInv, Numbered
  <1>2. CASE InternalSend
    <2>1. /\ encoding /\ writes' = Append(writes, Last(encoded))
          /\ UNCHANGED <<connectionState, messageQueue, sent, encoded, written>>
      BY <1>2 DEF InternalSend, closeVars
    <2>2. writes' # << >>
      BY <2>1 DEF WriteInv
    <2>3. InHand' = InHand
      BY <2>1, <2>2 DEF InHand
    <2> QED
      BY <2>1, <2>3 DEF StreamInv, Flow, Numbered, Closed
  <1>3. CASE WriteDone
    <2>1. /\ ~encoding /\ messageQueue # << >> /\ Tail(writes) = << >>
          /\ Head(writes) = Head(messageQueue)
      BY <1>3, WriteAlone DEF WriteDone
    <2>2. Len(written) = sent - Len(messageQueue) /\ Len(encoded) = Len(written) + 1
      BY <1>3, <2>1 DEF WriteDone, StreamInv, Flow, InHand
    <2>3. /\ Head(messageQueue) \in 1 .. MaxMessages
          /\ Head(messageQueue) = Len(written) + 1
          /\ Tail(messageQueue) \in Seq(1 .. MaxMessages)
          /\ Len(Tail(messageQueue)) = Len(messageQueue) - 1
          /\ \A i \in 1 .. Len(Tail(messageQueue)) :
               Tail(messageQueue)[i] = sent - Len(Tail(messageQueue)) + i
      <3>1. /\ Head(messageQueue) \in 1 .. MaxMessages
            /\ Head(messageQueue) = sent - Len(messageQueue) + 1
        BY <1>0, <2>1, FrontNumber DEF WriteInv, StreamInv
      <3>2. /\ Tail(messageQueue) \in Seq(1 .. MaxMessages)
            /\ Len(Tail(messageQueue)) = Len(messageQueue) - 1
            /\ \A i \in 1 .. Len(Tail(messageQueue)) :
                 Tail(messageQueue)[i] = sent - Len(Tail(messageQueue)) + i
        BY <1>0, <2>1, FrontNumber DEF WriteInv, StreamInv
      <3> QED
        BY <2>2, <3>1, <3>2
    <2>4. /\ written' = Append(written, Head(messageQueue)) /\ writes' = << >>
          /\ messageQueue' = Tail(messageQueue) /\ sent' = sent /\ NextMessage
      BY <1>3, <2>1 DEF WriteDone
    <2>5. /\ written' \in Seq(1 .. MaxMessages) /\ Numbered(written')
          /\ Len(written') = Len(written) + 1
      BY <2>3, <2>4, AppendNumber DEF StreamInv
    <2>6. Len(encoded) = Len(written') /\ Len(written') = sent - Len(messageQueue')
      BY <1>0, <2>2, <2>3, <2>4, <2>5
    <2>7. encoded \in Seq(1 .. MaxMessages) /\ Numbered(encoded)
      BY DEF WriteInv, StreamInv
    <2> QED
      BY <1>0, <2>3, <2>4, <2>5, <2>6, <2>7, NextMessageStream
  <1>4. CASE WriteFails
    <2>1. messageQueue' = << >> /\ Closed' /\ UNCHANGED <<encoded, written>>
      BY <1>4 DEF WriteFails, Close, Closed
    <2> QED
      BY <2>1, NoMessage DEF StreamInv, Flow, Numbered
  <1> QED
    BY <1>1, <1>2, <1>3, <1>4 DEF IoHandler
LEMMA NextStream ==
  ASSUME WriteInv, StreamInv, [Next]_vars
  PROVE  StreamInv'
  <1>1. CASE Send
    BY <1>1, QueueStream DEF Send
  <1>2. CASE IoHandler
    BY <1>2, IoHandlerStream
  <1>3. CASE ParseFirst
    <2>1. CASE UNCHANGED writeVars
      BY <1>3, <2>1, StreamAlone DEF ParseFirst, Received
    <2>2. CASE sent < MaxMessages /\ Queue /\ UNCHANGED <<encoding, writes, encoded, written>>
      BY <1>3, <2>2, QueueStream DEF ParseFirst, Received
    <2> QED
      BY <1>3, <2>1, <2>2 DEF ParseFirst
  <1>4. CASE IoReader /\ ~ParseFirst
    BY <1>4, StreamAlone
    DEF IoReader, ParseProxy, ParseProxyRefused, ParseRest, ParseHeader, NoProtocol,
        ParsePacket, Quiet, Received
  <1>5. CASE Disconnect \/ ReadEnds \/ Timeout \/ Parse \/ ResumeWork \/ Release
                 \/ Reset \/ Destroy
    BY <1>5, StreamAlone
    DEF Disconnect, ReadEnds, Quiet, Timeout, ReadTimeout, WriteTimeout, Parse, ResumeWork,
        Release, Reset, Destroy, Close, CloseAfterRead, Closed, closeVars
  <1>6. CASE UNCHANGED vars
    BY <1>6, StreamAlone DEF vars, closeVars, Closed
  <1> QED
    BY <1>1, <1>2, <1>3, <1>4, <1>5, <1>6 DEF Next, IoReader

LEMMA InitStream == Init => StreamInv /\ DrainInv /\ FlagTypes
  <1> SUFFICES ASSUME Init
               PROVE  StreamInv /\ DrainInv /\ FlagTypes
    OBVIOUS
  <1>1. StreamInv
    <2>1. << >> \in Seq(1 .. MaxMessages) /\ Len(<< >>) = 0 /\ Numbered(<< >>)
      BY NoMessage
    <2>2. InHand = 0
      BY DEF Init, InHand
    <2>3. messageQueue = << >> /\ encoded = << >> /\ written = << >>
      BY DEF Init
    <2>4. Len(written) = 0 /\ Len(encoded) = 0 /\ Len(messageQueue) = 0 /\ sent = 0
      BY <2>1, <2>3 DEF Init
    <2>5. Len(written) = sent - Len(messageQueue) /\ Len(encoded) = Len(written) + InHand
      BY <2>2, <2>4
    <2>6. \A i \in 1 .. Len(messageQueue) : messageQueue[i] = sent - Len(messageQueue) + i
      BY <2>1, <2>3
    <2> QED
      BY <2>1, <2>3, <2>5, <2>6 DEF StreamInv, Flow
  <1>2. DrainInv
    BY DEF Init, DrainInv
  <1>3. FlagTypes
    <2>1. 0 \in 0 .. MaxPackets
      BY ConnectionAssumption
    <2> QED
      BY <2>1 DEF Init, FlagTypes
  <1> QED
    BY <1>1, <1>2, <1>3

-----------------------------------------------------------------------------
(* The types of the flags.                                                 *)

LEMMA CloseTypes ==
  ASSUME FlagTypes, NEW force \in BOOLEAN, NEW q, Close(force, q)
  PROVE  /\ connectionState' \in {"identifying", "readings", "open", "closed"}
         /\ socket' \in BOOLEAN /\ graceful' \in BOOLEAN
         /\ release' \in {"none", "posted", "done", "dropped"}
  BY DEF FlagTypes, Close

LEMMA ReaderTypes ==
  ASSUME FlagTypes, IoReader
  PROVE  FlagTypes'
  <1>1. CASE ParseProxy
    BY <1>1 DEF ParseProxy, Received, ReadNext, Quiet, FlagTypes
  <1>2. CASE ParseProxyRefused
    BY <1>2, CloseTypes DEF ParseProxyRefused, Received, CloseAfterRead, Quiet, FlagTypes
  <1>3. CASE ParseRest
    BY <1>3, CloseTypes DEF ParseRest, Received, ReadNext, CloseAfterRead, Quiet, FlagTypes
  <1>4. CASE ParseHeader
    BY <1>4, CloseTypes
    DEF ParseHeader, Received, ReadNext, CloseAfterRead, Quiet, FlagTypes, closeVars
  <1>5. CASE ParseFirst
    BY <1>5 DEF ParseFirst, Received, ReadNext, FlagTypes, closeVars
  <1>6. CASE NoProtocol
    BY <1>6, CloseTypes DEF NoProtocol, Received, CloseAfterRead, FlagTypes
  <1>7. CASE ParsePacket
    <2>1. packets' \in 0 .. MaxPackets
      BY <1>7, ConnectionAssumption DEF ParsePacket, FlagTypes
    <2>2. readTimer' = TRUE
      BY <1>7 DEF ParsePacket, ReadNext, NoRead
    <2> QED
      BY <1>7, <2>1, <2>2 DEF ParsePacket, Received, FlagTypes, closeVars
  <1> QED
    BY <1>1, <1>2, <1>3, <1>4, <1>5, <1>6, <1>7 DEF IoReader

LEMMA NextTypes ==
  ASSUME FlagTypes, [Next]_vars
  PROVE  FlagTypes'
  <1> USE DEF FlagTypes, closeVars, readVars
  <1>1. CASE Send
    BY <1>1 DEF Send
  <1>2. CASE IoHandler
    <2>1. CASE InternalWorker \/ WriteDone
      BY <1>2, <2>1 DEF InternalWorker, WriteDone, NextMessage, CancelIfClosed
    <2>2. CASE InternalSend
      BY <2>2 DEF InternalSend
    <2>3. CASE WriteFails
      BY <2>3, CloseTypes DEF WriteFails, CancelIfClosed
    <2> QED
      BY <1>2, <2>1, <2>2, <2>3 DEF IoHandler
  <1>3. CASE IoReader
    BY <1>3, ReaderTypes
  <1>4. CASE Disconnect \/ ReadEnds \/ Timeout
    BY <1>4, CloseTypes
    DEF Disconnect, ReadEnds, Timeout, ReadTimeout, WriteTimeout, CloseAfterRead,
        CancelIfClosed, Quiet
  <1>5. CASE Parse \/ ResumeWork
    BY <1>5 DEF Parse, ResumeWork, Alive
  <1>6. CASE Release \/ Reset \/ Destroy
    BY <1>6 DEF Release, Reset, Destroy, CancelIfClosed
  <1>7. CASE UNCHANGED vars
    BY <1>7 DEF vars
  <1> QED
    BY <1>1, <1>2, <1>3, <1>4, <1>5, <1>6, <1>7 DEF Next

-----------------------------------------------------------------------------
(* What a close that is not forced leaves to write.                        *)

\* Close decides on the queue as it is, and the first one counts.
LEMMA CloseDrains ==
  ASSUME WriteInv, StreamInv, DrainInv, FlagTypes,
         NEW force \in BOOLEAN, Close(force, messageQueue),
         UNCHANGED <<broken, messageQueue, written, sent>>
  PROVE  DrainInv'
  <1>1. Closed'
    BY DEF Close, Closed
  <1>2. CASE Closed
    <2>1. graceful' = graceful /\ socket' = socket
      BY <1>2 DEF Close, CloseNow, FlagTypes
    <2> QED
      BY <1>1, <1>2, <2>1 DEF DrainInv
  <1>3. CASE ~Closed
    <2>1. Len(written) + Len(messageQueue) = sent
      <3>1. Len(written) = sent - Len(messageQueue)
        BY <1>3 DEF StreamInv, Flow
      <3>2. Len(messageQueue) \in Nat /\ sent \in Nat
        BY SequenceFacts DEF WriteInv
      <3> QED
        BY <3>1, <3>2
    <2>2. socket /\ graceful' = ~force
      BY <1>3 DEF DrainInv, Close
    <2>3. ~socket' => force \/ messageQueue = << >>
      BY <1>3, <2>2 DEF Close, CloseNow
    <2> QED
      BY <1>1, <2>1, <2>2, <2>3 DEF DrainInv
  <1> QED
    BY <1>2, <1>3

\* A step that closes nothing and leaves the queue and the peer alone.
LEMMA DrainAlone ==
  ASSUME DrainInv, Closed => Closed',
         UNCHANGED <<graceful, socket, messageQueue, written, sent>>, broken => broken'
  PROVE  DrainInv'
  BY DEF DrainInv
LEMMA NextDrains ==
  ASSUME WriteInv, StreamInv, DrainInv, FlagTypes, [Next]_vars
  PROVE  DrainInv'
  <1>0. /\ sent \in Nat /\ Len(messageQueue) \in Nat /\ Len(written) \in Nat
        /\ Len(encoded) \in Nat
    BY SequenceFacts DEF WriteInv, StreamInv
  <1>1. CASE Send
    BY <1>1 DEF Send, closeVars, Closed, DrainInv
  <1>2. CASE InternalWorker
    <2>1. messageQueue # << >> /\ messageQueue' = messageQueue
      BY <1>2, WorkerAlone DEF InternalWorker
    <2>2. socket' = socket
      BY <1>2, <2>1 DEF InternalWorker, NextMessage, FlagTypes
    <2> QED
      BY <1>2, <2>1, <2>2, DrainAlone DEF InternalWorker, closeVars, Closed
  <1>3. CASE InternalSend
    BY <1>3, DrainAlone DEF InternalSend, closeVars, Closed
  <1>4. CASE WriteDone
    <2>1. /\ messageQueue # << >> /\ messageQueue' = Tail(messageQueue)
          /\ written' = Append(written, Head(writes)) /\ sent' = sent /\ socket
          /\ UNCHANGED <<closeVars, broken>>
      BY <1>4, WriteAlone DEF WriteDone
    <2>2. Len(messageQueue') = Len(messageQueue) - 1 /\ Len(written') = Len(written) + 1
      <3>1. Len(Tail(messageQueue)) = Len(messageQueue) - 1
        BY <2>1, HeadTailProperties DEF WriteInv
      <3>2. Len(Append(written, Head(writes))) = Len(written) + 1
        BY DEF StreamInv
      <3> QED
        BY <2>1, <3>1, <3>2
    <2>3. Len(written') + Len(messageQueue') = Len(written) + Len(messageQueue)
      BY <1>0, <2>2
    <2>4. ~socket' => Closed' /\ messageQueue' = << >>
      BY <1>4, <2>1 DEF WriteDone, NextMessage, closeVars, Closed
    <2>5. graceful' = graceful /\ (Closed' <=> Closed)
      BY <2>1 DEF closeVars, Closed
    <2> QED
      BY <2>1, <2>3, <2>4, <2>5 DEF DrainInv
  <1>5. CASE WriteFails
    <2>1. messageQueue # << >> /\ (~socket \/ broken) /\ Closed' /\ broken' = broken
      BY <1>5, WriteAlone DEF WriteFails, Close, Closed
    <2>2. graceful' => graceful
      BY <1>5 DEF WriteFails, Close
    <2>3. ~(graceful /\ ~broken)
      BY <2>1 DEF DrainInv
    <2> QED
      BY <2>1, <2>2, <2>3 DEF DrainInv
  <1>6. CASE ParseFirst
    <2>1. CASE UNCHANGED <<closeVars, socket, writeVars>>
      BY <1>6, <2>1, DrainAlone DEF ParseFirst, Received, closeVars, writeVars, Closed
    <2>2. CASE Closed' /\ socket' = (socket /\ messageQueue' # << >>)
      <3>1. Len(written') + Len(messageQueue') = sent'
        <4>1. CASE UNCHANGED writeVars
          <5>1. Len(written) = sent - Len(messageQueue)
            BY <1>6 DEF ParseFirst, Received, StreamInv, Flow
          <5>2. Len(written) + Len(messageQueue) = sent
            BY <1>0, <5>1
          <5> QED
            BY <4>1, <5>2 DEF writeVars
        <4>2. CASE sent < MaxMessages /\ Queue
                     /\ UNCHANGED <<encoding, writes, encoded, written>>
          BY <1>6, <4>2, QueueStream DEF ParseFirst, Received
        <4> QED
          BY <1>6, <4>1, <4>2, <2>2 DEF ParseFirst
      <3>2. ~socket' => messageQueue' = << >>
        BY <1>6, <2>2 DEF ParseFirst, Received, DrainInv
      <3> QED
        BY <2>2, <3>1, <3>2 DEF DrainInv
    <2> QED
      BY <1>6, <2>1, <2>2 DEF ParseFirst, Closed
  <1>7. CASE IoReader /\ ~ParseFirst
    <2>1. CASE \E force \in BOOLEAN : CloseAfterRead(force)
      <3>1. UNCHANGED <<broken, messageQueue, written, sent>>
        BY <1>7
        DEF IoReader, ParseProxy, ParseProxyRefused, ParseRest, ParseHeader, NoProtocol,
            ParsePacket, Received, Quiet, writeVars
      <3> QED
        BY <2>1, <3>1, CloseDrains DEF CloseAfterRead
    <2>2. CASE ~ \E force \in BOOLEAN : CloseAfterRead(force)
      <3>1. /\ ~Closed
            /\ UNCHANGED <<graceful, socket, messageQueue, written, sent, broken>>
        BY <1>7, <2>2
        DEF IoReader, ParseProxy, ParseProxyRefused, ParseRest, ParseHeader, NoProtocol,
            ParsePacket, Received, Quiet, writeVars, closeVars
      <3> QED
        BY <3>1, DrainAlone
    <2> QED
      BY <2>1, <2>2
  <1>8. CASE Disconnect \/ Timeout
    BY <1>8, CloseDrains DEF Disconnect, Timeout, ReadTimeout, WriteTimeout, writeVars
  <1>9. CASE ReadEnds
    BY <1>9, CloseDrains DEF ReadEnds, CloseAfterRead, Quiet, writeVars
  <1>10. CASE Parse \/ ResumeWork \/ Release \/ Reset
    BY <1>10, DrainAlone
    DEF Parse, ResumeWork, Release, Reset, writeVars, closeVars, Closed
  <1>11. CASE Destroy
    <2>1. ~Closed = FALSE /\ posted = 0 /\ ~encoding /\ writes = << >>
      BY <1>11 DEF Destroy, Alive, WriteInv
    <2>2. messageQueue = << >>
      BY <2>1, NobodyWrites
    <2>3. UNCHANGED <<graceful, connectionState, broken, messageQueue, written, sent>>
      BY <1>11 DEF Destroy, writeVars, closeVars
    <2> QED
      BY <2>1, <2>2, <2>3 DEF DrainInv, Closed
  <1>12. CASE UNCHANGED vars
    BY <1>12, DrainAlone DEF vars, writeVars, closeVars, Closed
  <1> QED
    BY <1>1, <1>2, <1>3, <1>4, <1>5, <1>6, <1>7, <1>8, <1>9, <1>10, <1>11, <1>12
    DEF Next, IoHandler

THEOREM StreamInvariant == Spec => [](WriteInv /\ StreamInv /\ DrainInv /\ FlagTypes)
  <1>1. StreamInv /\ WriteInv /\ [Next]_vars => StreamInv'
    BY NextStream
  <1>2. FlagTypes /\ [Next]_vars => FlagTypes'
    BY NextTypes
  <1>3. WriteInv /\ StreamInv /\ DrainInv /\ FlagTypes /\ [Next]_vars => DrainInv'
    BY NextDrains
  <1> QED
    BY WriteInvariant, InitStream, <1>1, <1>2, <1>3, PTL DEF Spec

-----------------------------------------------------------------------------
\* Every message is encoded once, in the order of the sends, and written in
\* that order; and every variable keeps its type.
THEOREM EncodedOnceInOrderHolds == Spec => []EncodedOnceInOrder
  <1>1. WriteInv /\ ReadInv /\ StreamInv /\ FlagTypes => TypeOK
    BY DEF WriteInv, ReadInv, StreamInv, FlagTypes, TypeOK, What
  <1>2. WriteInv /\ StreamInv => \A i \in DOMAIN encoded : encoded[i] = i
    BY DEF WriteInv, StreamInv, Numbered
  <1>3. WriteInv /\ StreamInv => IsPrefix(written, encoded)
    <2> SUFFICES ASSUME WriteInv, StreamInv
                 PROVE  IsPrefix(written, encoded)
      OBVIOUS
    <2> DEFINE n == Len(written)
               S == 1 .. MaxMessages
    <2>1. n \in Nat /\ n <= Len(encoded) /\ Len(encoded) \in Nat
      BY SequenceFacts DEF WriteInv, StreamInv
    <2>2. written \in Seq(S) /\ encoded \in Seq(S)
      BY DEF WriteInv, StreamInv
    <2>3. \A i \in 1 .. n : written[i] = i /\ encoded[i] = i
      BY <2>1 DEF StreamInv, Numbered
    <2> HIDE DEF S
    <2>4. SubSeq(written, 1, n) = SubSeq(encoded, 1, n)
      BY <2>1, <2>2, <2>3
    <2> QED
      BY <2>1, <2>4 DEF IsPrefix
  <1> QED
    BY StreamInvariant, ReadInvariant, <1>1, <1>2, <1>3, PTL DEF EncodedOnceInOrder

\* A close that is not forced lets what was sent before it reach a client that
\* is still there.
THEOREM FlushedBeforeCloseHolds == Spec => []FlushedBeforeClose
  <1>1. StreamInv /\ DrainInv => FlushedBeforeClose
    <2> SUFFICES ASSUME StreamInv, DrainInv, graceful, ~socket, ~broken
                 PROVE  Len(written) = sent
      BY DEF FlushedBeforeClose
    <2>1. messageQueue = << >> /\ Len(written) + Len(messageQueue) = sent
      BY DEF DrainInv
    <2>2. Len(messageQueue) = 0 /\ Len(written) \in Nat
      BY <2>1, NoMessage, SequenceFacts DEF StreamInv
    <2> QED
      BY <2>1, <2>2
  <1> QED
    BY StreamInvariant, <1>1, PTL
=============================================================================
