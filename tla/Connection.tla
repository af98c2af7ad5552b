----------------------------- MODULE Connection -----------------------------
(***************************************************************************)
(* One client connection (server/network/connection/connection.cpp) and    *)
(* the part of its protocol that reads and writes through it               *)
(* (server/network/protocol/protocol.cpp).  One thread runs the handlers   *)
(* of the io_service; the dispatcher sends, closes, and parses the packets *)
(* that were read.  connectionLock makes a step of either thread atomic;   *)
(* it is released while a message is encoded, and resumeWork takes none.   *)
(***************************************************************************)
EXTENDS Integers, SequencesExt

CONSTANTS
  Lags,          \* the dispatcher may be later than an event's expiration
  MaxMessages,   \* bound: messages sent
  MaxPackets     \* bound: packets received after the first

ASSUME ConnectionAssumption ==
  /\ Lags \in BOOLEAN
  /\ MaxMessages \in Nat
  /\ MaxPackets \in Nat

VARIABLES
  connectionState,  \* CONNECTION_STATE_...
  socket,           \* the socket is open
  protocol,         \* the protocol has been made
  broken,           \* the peer is gone: every operation of the socket fails
  messageQueue,     \* the messages to write, numbered as they were sent
  posted,           \* internalWorker handlers posted to the io_service
  encoding,         \* the I/O thread is in onSendMessage, without the lock
  writes,           \* the messages of the async_writes not completed
  reads,            \* what the async_reads not completed read
  readTimer,        \* armed
  receivedFirst,
  parses,           \* dispatcher events that will parse m_msg
  parsing,          \* the dispatcher is parsing m_msg
  release,          \* the event that runs protocol->release()
  sent, packets,    \* history: messages queued, packets received
  encoded, written, \* history: messages given to onSendMessage, and written
  graceful          \* history: the close was not forced

writeVars == <<messageQueue, posted, encoding, writes, sent, encoded, written>>
readVars == <<protocol, reads, receivedFirst, parses, parsing, packets>>
closeVars == <<connectionState, release, graceful>>
vars == <<closeVars, socket, broken, writeVars, readVars, readTimer>>

Closed == connectionState = "closed"

\* The I/O thread runs one handler at a time.
IoIdle == ~encoding

-----------------------------------------------------------------------------
(* close and send.                                                         *)

\* Mutant: every close closes the socket.
CloseAtOnce(force, q) == ~Closed

\* close(force) with queue q: a second close does nothing, and the socket of a
\* close that is not forced waits for the queue to drain.
CloseNow(force, q) == ~Closed /\ (q = << >> \/ force)

Close(force, q) ==
  /\ connectionState' = "closed"
  /\ release' = IF ~Closed /\ protocol THEN "posted" ELSE release
  /\ graceful' = IF Closed THEN graceful ELSE ~force
  /\ socket' = (socket /\ ~CloseNow(force, q))

\* closeSocket cancels the timer when it closes the socket.
CancelIfClosed == readTimer' = (readTimer /\ socket' = socket)

\* Mutant: every message posts a worker.
PostAlways(q) == 1

\* send: the first message of an empty queue posts a worker.
PostOnEmpty(q) == IF q = << >> THEN 1 ELSE 0

Queue ==
  /\ sent' = sent + 1
  /\ messageQueue' = Append(messageQueue, sent + 1)
  /\ posted' = posted + PostOnEmpty(messageQueue)

Send ==
  /\ sent < MaxMessages
  /\ protocol
  /\ ~Closed
  /\ Queue
  /\ UNCHANGED <<closeVars, socket, broken, encoding, writes, encoded, written,
                 readVars, readTimer>>

\* disconnect(): a close by the dispatcher, not forced.
Disconnect ==
  /\ protocol
  /\ Close(FALSE, messageQueue)
  /\ CancelIfClosed
  /\ UNCHANGED <<broken, writeVars, readVars>>

-----------------------------------------------------------------------------
(* Writing: internalWorker, internalSend and onWriteOperation.             *)

\* Mutant: the handler that empties the queue does not close the socket.
NextMessageKeepsSocket ==
  /\ encoding' = (messageQueue' # << >>)
  /\ encoded' = IF encoding' THEN Append(encoded, Head(messageQueue')) ELSE encoded
  /\ socket' = socket
  /\ CancelIfClosed

\* With the queue of the next state: the front message is encoded without the
\* lock, or a closed connection whose queue has drained closes its socket.
NextMessage ==
  /\ encoding' = (messageQueue' # << >>)
  /\ encoded' = IF encoding' THEN Append(encoded, Head(messageQueue')) ELSE encoded
  /\ socket' = (socket /\ ~(Closed /\ ~encoding'))
  /\ CancelIfClosed

InternalWorker ==
  /\ IoIdle
  /\ posted > 0
  /\ posted' = posted - 1
  /\ UNCHANGED messageQueue
  /\ NextMessage
  /\ UNCHANGED <<closeVars, broken, writes, sent, written, readVars>>

\* internalSend, when onSendMessage has returned.
InternalSend ==
  /\ encoding
  /\ encoding' = FALSE
  /\ writes' = Append(writes, Last(encoded))
  /\ UNCHANGED <<closeVars, socket, broken, messageQueue, posted, sent, encoded,
                 written, readVars, readTimer>>

\* Mutant: the message written stays in the queue.
WriteDoneKeepsFront ==
  /\ IoIdle
  /\ writes # << >>
  /\ socket /\ ~broken
  /\ writes' = Tail(writes)
  /\ written' = Append(written, Head(writes))
  /\ UNCHANGED messageQueue
  /\ NextMessage
  /\ UNCHANGED <<closeVars, broken, posted, sent, readVars>>

WriteDone ==
  /\ IoIdle
  /\ writes # << >>
  /\ socket /\ ~broken
  /\ writes' = Tail(writes)
  /\ written' = Append(written, Head(writes))
  /\ messageQueue' = Tail(messageQueue)
  /\ NextMessage
  /\ UNCHANGED <<closeVars, broken, posted, sent, readVars>>

WriteFails ==
  /\ IoIdle
  /\ writes # << >>
  /\ ~socket \/ broken
  /\ writes' = Tail(writes)
  /\ messageQueue' = << >>
  /\ Close(TRUE, << >>)
  /\ CancelIfClosed
  /\ UNCHANGED <<broken, posted, encoding, sent, encoded, written, readVars>>

-----------------------------------------------------------------------------
(* Reading.  The timer is armed with every read.                           *)

\* A read of a connection still open completes.
Received(what) ==
  /\ IoIdle
  /\ reads # << >>
  /\ Head(reads) = what
  /\ ~Closed /\ ~broken
  /\ UNCHANGED broken

\* Mutant: the timer, cancelled when a read completes, is not armed again.
ReadUntimed(what) ==
  /\ reads' = Append(Tail(reads), what)
  /\ readTimer' = FALSE

ReadNext(what) ==
  /\ reads' = Append(Tail(reads), what)
  /\ readTimer' = TRUE

\* The handler closes the connection and starts no read.
CloseAfterRead(force) ==
  /\ Close(force, messageQueue)
  /\ readTimer' = FALSE
  /\ reads' = Tail(reads)

Quiet == UNCHANGED <<writeVars, protocol, receivedFirst, parses, parsing, packets>>

\* parseProxyIdentification: the first two bytes are those of the proxy line,
\* and the rest is read; or they are not, and they are parsed as a header.
ParseProxy ==
  /\ Received("proxy")
  /\ \/ /\ connectionState' = "readings"
        /\ ReadNext("rest")
     \/ /\ connectionState' = "open"
        /\ ReadNext("body")
  /\ UNCHANGED <<release, graceful, socket>>
  /\ Quiet

\* The two bytes are no proxy line, and the header they are is refused.
ParseProxyRefused ==
  /\ Received("proxy")
  /\ \E force \in BOOLEAN : CloseAfterRead(force)
  /\ Quiet

\* The rest of the proxy line names this server, or another.
ParseRest ==
  /\ Received("rest")
  /\ \/ /\ connectionState' = "open"
        /\ ReadNext("header")
        /\ UNCHANGED <<release, graceful, socket>>
     \/ CloseAfterRead(TRUE)
  /\ Quiet

\* parseHeader: the body is read, unless the client sends too many packets
\* (a close that is not forced) or a bad size.
ParseHeader ==
  /\ Received("header")
  /\ \/ /\ ReadNext("body")
        /\ UNCHANGED <<closeVars, socket>>
     \/ \E force \in BOOLEAN : CloseAfterRead(force)
  /\ Quiet

\* parsePacket, the first message: a protocol is found and parses it here; it
\* may refuse the client, with a message or none, and disconnect.  Either way a
\* header is read next.
ParseFirst ==
  /\ Received("body")
  /\ ~receivedFirst
  /\ receivedFirst' = TRUE
  /\ protocol' = TRUE
  /\ ReadNext("header")
  /\ \/ UNCHANGED <<closeVars, socket, writeVars>>
     \/ /\ connectionState' = "closed"
        /\ graceful' = TRUE
        /\ release' = "posted"
        /\ \/ UNCHANGED writeVars
           \/ /\ sent < MaxMessages
              /\ Queue
              /\ UNCHANGED <<encoding, writes, encoded, written>>
        /\ socket' = (socket /\ messageQueue' # << >>)
  /\ UNCHANGED <<parses, parsing, packets>>

\* No service has the protocol the first message names.
NoProtocol ==
  /\ Received("body")
  /\ ~receivedFirst /\ ~protocol
  /\ receivedFirst' = TRUE
  /\ CloseAfterRead(TRUE)
  /\ UNCHANGED <<writeVars, protocol, parses, parsing, packets>>

\* Mutant: the next header is read while the event is pending.
ReadDuringParse == ReadNext("header")

NoRead == reads' = Tail(reads) /\ readTimer' = TRUE

\* parsePacket, a later message: onRecvMessage skips it and the next header is
\* read, or an event that parses m_msg is added and no read is started.
ParsePacket ==
  /\ Received("body")
  /\ receivedFirst
  /\ packets < MaxPackets
  /\ packets' = packets + 1
  /\ \/ ReadNext("header") /\ UNCHANGED parses
     \/ NoRead /\ parses' = parses + 1
  /\ UNCHANGED <<closeVars, socket, writeVars, protocol, receivedFirst, parsing>>

\* A read fails, or completes on a closed connection: any handler closes.
ReadEnds ==
  /\ IoIdle
  /\ reads # << >>
  /\ Closed \/ broken
  /\ CloseAfterRead(TRUE)
  /\ UNCHANGED broken
  /\ Quiet

-----------------------------------------------------------------------------
(* The dispatcher's events, the timers, the peer and the destructor.       *)

\* Handlers hold the connection, and the manager does until it is closed.
Alive == ~Closed \/ reads # << >> \/ writes # << >> \/ posted > 0 \/ encoding \/ parsing

\* The event of sendRecvMessageCallback: protocol->parsePacket(m_msg) ...
Parse ==
  /\ ~parsing
  /\ parses > 0
  /\ parses' = parses - 1
  /\ parsing' = Alive
  /\ UNCHANGED <<closeVars, socket, broken, writeVars, protocol, reads,
                 receivedFirst, packets, readTimer>>

\* ... and resumeWork(), whether or not the connection has been closed.
ResumeWork ==
  /\ parsing
  /\ parsing' = FALSE
  /\ reads' = Append(reads, "header")
  /\ readTimer' = TRUE
  /\ UNCHANGED <<closeVars, socket, broken, writeVars, protocol, receivedFirst,
                 parses, packets>>

\* handleTimeout of either timer; the write timer is armed while a write is.
ReadTimeout ==
  /\ IoIdle
  /\ readTimer
  /\ readTimer' = FALSE
  /\ Close(TRUE, messageQueue)
  /\ UNCHANGED <<broken, writeVars, readVars>>

WriteTimeout ==
  /\ IoIdle
  /\ writes # << >>
  /\ Close(TRUE, messageQueue)
  /\ CancelIfClosed
  /\ UNCHANGED <<broken, writeVars, readVars>>

\* The event of close(): an event later than its expiration is dropped.
Release ==
  /\ ~parsing
  /\ release = "posted"
  /\ \/ release' = "done"
     \/ Lags /\ release' = "dropped"
  /\ UNCHANGED <<connectionState, graceful, socket, broken, writeVars, readVars, readTimer>>

\* The peer resets the connection.
Reset ==
  /\ ~broken
  /\ broken' = TRUE
  /\ UNCHANGED <<closeVars, socket, writeVars, readVars, readTimer>>

\* ~Connection closes what closeSocket did not.
Destroy ==
  /\ ~Alive
  /\ socket
  /\ socket' = FALSE
  /\ CancelIfClosed
  /\ UNCHANGED <<closeVars, broken, writeVars, readVars>>

-----------------------------------------------------------------------------
\* onAccept has run: accept() of the game protocol, which talks first, or
\* acceptInternal() on a port whose clients name their protocol.
Init ==
  /\ \/ connectionState = "identifying" /\ protocol = TRUE /\ reads = <<"proxy">>
     \/ connectionState = "open" /\ protocol = FALSE /\ reads = <<"header">>
  /\ socket = TRUE /\ readTimer = TRUE
  /\ broken = FALSE /\ encoding = FALSE /\ parsing = FALSE
  /\ receivedFirst = FALSE /\ graceful = FALSE
  /\ messageQueue = << >> /\ writes = << >> /\ encoded = << >> /\ written = << >>
  /\ posted = 0 /\ parses = 0 /\ sent = 0 /\ packets = 0
  /\ release = "none"

IoHandler == InternalWorker \/ InternalSend \/ WriteDone \/ WriteFails
IoReader ==
  ParseProxy \/ ParseProxyRefused \/ ParseRest \/ ParseHeader \/ ParseFirst
    \/ NoProtocol \/ ParsePacket
Timeout == ReadTimeout \/ WriteTimeout

Next ==
  \/ Send \/ Disconnect
  \/ IoHandler \/ IoReader \/ ReadEnds \/ Timeout
  \/ Parse \/ ResumeWork \/ Release
  \/ Reset \/ Destroy

Spec == Init /\ [][Next]_vars

\* The io_service runs every handler that is ready, an operation on a socket
\* that is closed or reset completes with an error, and the dispatcher drains its
\* events.  Nothing makes the peer take what is written, send, or leave.
Fairness ==
  /\ WF_vars(InternalWorker) /\ WF_vars(InternalSend) /\ WF_vars(WriteFails)
  /\ WF_vars((~socket \/ broken) /\ ReadEnds)
  /\ WF_vars(Parse) /\ WF_vars(ResumeWork) /\ WF_vars(Release)
  /\ WF_vars(Destroy)

FairSpec == Spec /\ Fairness

-----------------------------------------------------------------------------
\* Every variable has its type.
TypeOK ==
  /\ connectionState \in {"identifying", "readings", "open", "closed"}
  /\ socket \in BOOLEAN /\ protocol \in BOOLEAN /\ broken \in BOOLEAN
  /\ encoding \in BOOLEAN /\ parsing \in BOOLEAN /\ readTimer \in BOOLEAN
  /\ receivedFirst \in BOOLEAN /\ graceful \in BOOLEAN
  /\ messageQueue \in Seq(1 .. MaxMessages) /\ writes \in Seq(1 .. MaxMessages)
  /\ encoded \in Seq(1 .. MaxMessages) /\ written \in Seq(1 .. MaxMessages)
  /\ posted \in Nat /\ parses \in Nat
  /\ reads \in Seq({"proxy", "rest", "header", "body"})
  /\ sent \in 0 .. MaxMessages /\ packets \in 0 .. MaxPackets
  /\ release \in {"none", "posted", "done", "dropped"}

Count(condition) == IF condition THEN 1 ELSE 0

\* A queue that is not empty has exactly one worker, encoding or write, however
\* sends, completions and closes interleave; and the message at its front, to
\* which internalWorker and onWriteOperation hold a reference while the lock is
\* released, stays there until it is written.
SingleWriter ==
  /\ posted + Count(encoding) + Len(writes) = Count(messageQueue # << >>)
  /\ encoding => Last(encoded) = Head(messageQueue)
  /\ writes # << >> => Head(writes) = Head(messageQueue)

\* onSendMessage encrypts a message in place and numbers it, so every message
\* is encoded once, in the order of the sends, and written in that order (and
\* every variable keeps its type).
EncodedOnceInOrder ==
  /\ TypeOK
  /\ \A i \in DOMAIN encoded : encoded[i] = i
  /\ IsPrefix(written, encoded)

\* m_msg has one owner: the read that fills it, or the dispatcher's event that
\* parses it, which holds a reference to it on another thread.
BufferOwned == Len(reads) + parses + Count(parsing) <= 1

\* An open connection is read or parsed, and a timer watches over it: no order
\* of handlers leaves it open with nobody to notice that the client is gone.
NeverDeaf ==
  ~Closed => /\ Len(reads) + parses + Count(parsing) = 1
             /\ readTimer

\* A close that is not forced lets what was sent before it reach the client:
\* its socket closes with messages unwritten only if the client is gone.
FlushedBeforeClose == graceful /\ ~socket /\ ~broken => Len(written) = sent

\* A write waits for a peer that neither takes it nor leaves.
Stalled == writes # << >> /\ socket /\ ~broken

\* A closed connection gives its socket back, as often as its peer lets a write
\* complete or fail, and its protocol is released unless the dispatcher lags
\* behind the event's expiration.  A peer that stalls keeps the socket: the forced
\* close of the write timeout finds the connection closed and returns.
CloseEnds ==
  /\ Closed ~> (protocol => release = "done" \/ (Lags /\ release = "dropped"))
  /\ Closed ~> (~socket \/ Stalled)
=============================================================================
