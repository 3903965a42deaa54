------------------------------ MODULE Framing ------------------------------
(***************************************************************************)
(* One direction of a connection: network_send_message at one end and      *)
(* network_receive_message at the other (source/inet-private.c), over a    *)
(* stream of bytes that write and read take and give in pieces of any      *)
(* size.                                                                   *)
(*                                                                         *)
(* A message is its packed bytes; Messages is about what they mean.  A     *)
(* byte is a digit, of which SizeOfInt make the size that precedes each    *)
(* message.  write and read that are interrupted (EINTR) change nothing    *)
(* and are repeated: steps that stutter.                                   *)
(***************************************************************************)
EXTENDS Integers, SequencesExt

CONSTANTS
  Radix,        \* the number of values of a byte
  SizeOfInt,    \* the bytes of an int
  Payloads,     \* the messages, packed
  Capacity,     \* bound: the bytes that the connection holds
  MaxMessages   \* bound: the messages that are sent

\* The number of values of so many bytes.
Power[n \in 0 .. SizeOfInt] == IF n = 0 THEN 1 ELSE Radix * Power[n - 1]

ASSUME FramingAssumption ==
  /\ Radix \in Nat /\ Radix > 1 /\ SizeOfInt \in Nat /\ SizeOfInt > 0
  /\ Payloads \subseteq Seq(0 .. Radix - 1)
  /\ \A m \in Payloads : 2 * Len(m) < Power[SizeOfInt]
  /\ Capacity \in Nat /\ Capacity > 0 /\ MaxMessages \in Nat

VARIABLES
  sending,       \* "size" or "data", the buffer that the sender is writing; "idle"
  message,       \* what it sends
  written_size,  \* of that buffer
  wire,          \* the bytes written and not yet read
  connection,    \* "open"; "closed" by the sender; "reset"
  receiving,     \* "size" or "data", what the receiver reads; "failed"
  message_size,  \* the size it has read
  buffer,        \* the bytes that it has read of the size or of the message
  sent,          \* ghost: all messages that the sender has begun to send
  received       \* ghost: all that the receiver has returned

senderVars   == <<sending, message, written_size, sent>>
receiverVars == <<receiving, message_size, buffer, received>>
vars == <<senderVars, wire, connection, receiverVars>>

Init ==
  /\ sending = "idle" /\ message = <<>> /\ written_size = 0
  /\ wire = <<>> /\ connection = "open"
  /\ receiving = "size" /\ message_size = 0 /\ buffer = <<>>
  /\ sent = <<>> /\ received = <<>>

-----------------------------------------------------------------------------
(* The size of a message in network byte order.                            *)

htonl(n) == [i \in 1 .. SizeOfInt |-> (n \div Power[SizeOfInt - i]) % Radix]

\* The number that bytes make, the first of which counts most.
Unsigned(bytes) ==
  LET upto[n \in 0 .. Len(bytes)] ==
        IF n = 0 THEN 0 ELSE upto[n - 1] * Radix + bytes[n]
  IN  upto[Len(bytes)]

\* Fault: the bytes are taken in the order of the host.
ntohl_HostOrder(bytes) == Unsigned(Reverse(bytes))

\* An int: the upper half of the unsigned numbers is negative.
ntohl(bytes) ==
  LET n == Unsigned(bytes)
  IN  IF 2 * n < Power[SizeOfInt] THEN n ELSE n - Power[SizeOfInt]

-----------------------------------------------------------------------------
(* The sender.                                                             *)

Outgoing == IF sending = "size" THEN htonl(Len(message)) ELSE message
Unwritten == IF sending = "idle" THEN <<>>
             ELSE SubSeq(Outgoing, written_size + 1, Len(Outgoing))

SendMessage ==
  /\ sending = "idle" /\ connection = "open" /\ Len(sent) < MaxMessages
  /\ \E m \in Payloads : message' = m /\ sent' = Append(sent, m)
  /\ sending' = "size" /\ written_size' = 0
  /\ UNCHANGED <<wire, connection, receiverVars>>

\* A buffer is done, and the next one, if it is not empty, comes.
BufferWritten ==
  /\ written_size' = 0
  /\ sending' = IF sending = "size" /\ message # <<>> THEN "data" ELSE "idle"

\* Fault: what write returns is not compared with the size of the buffer.
Write_Once ==
  /\ Unwritten # <<>> /\ connection = "open"
  /\ \E n \in 1 .. Len(Unwritten) :
       /\ Len(wire) + n <= Capacity
       /\ wire' = wire \o SubSeq(Unwritten, 1, n)
  /\ BufferWritten
  /\ UNCHANGED <<message, sent, connection, receiverVars>>

\* write takes as much as it likes.
Write ==
  /\ Unwritten # <<>> /\ connection = "open"
  /\ \E n \in 1 .. Len(Unwritten) :
       /\ Len(wire) + n <= Capacity
       /\ wire' = wire \o SubSeq(Unwritten, 1, n)
       /\ IF n < Len(Unwritten)
          THEN written_size' = written_size + n /\ UNCHANGED sending
          ELSE BufferWritten
  /\ UNCHANGED <<message, sent, connection, receiverVars>>

\* write fails with anything but EINTR: -1 to the caller, which sends no more.
WriteFails ==
  /\ sending # "idle" /\ connection = "reset"
  /\ sending' = "idle" /\ written_size' = 0
  /\ UNCHANGED <<message, sent, wire, connection, receiverVars>>

-----------------------------------------------------------------------------
(* The network and the processes.                                          *)

\* The sender closes, as a primary does after each operation, or its process ends,
\* in the middle of a message or not: what was written still arrives.
Close ==
  /\ connection = "open" /\ connection' = "closed"
  /\ sending' = "idle" /\ written_size' = 0
  /\ UNCHANGED <<message, sent, wire, receiverVars>>

\* The connection breaks, with what was under way.
Reset ==
  /\ connection # "reset" /\ connection' = "reset"
  /\ wire' = <<>>
  /\ UNCHANGED <<senderVars, receiverVars>>

-----------------------------------------------------------------------------
(* The receiver.                                                           *)

Awaited == IF receiving = "size" THEN SizeOfInt ELSE message_size

Deliver(m) == received' = Append(received, m) /\ receiving' = "size"

\* ntohl and the test of the size; nothing is read for an empty message.
SizeRead(bytes) ==
  /\ message_size' = ntohl(bytes)
  /\ IF message_size' < 0 THEN receiving' = "failed" /\ UNCHANGED received
     ELSE IF message_size' = 0 THEN Deliver(<<>>)
     ELSE receiving' = "data" /\ UNCHANGED received

\* read gives as much as it likes, but no more than is missing.
Read ==
  /\ receiving # "failed" /\ connection # "reset"
  /\ \E n \in 1 .. Len(wire) :
       LET bytes == buffer \o SubSeq(wire, 1, n) IN
       /\ Len(bytes) <= Awaited
       /\ wire' = SubSeq(wire, n + 1, Len(wire))
       /\ \/ /\ Len(bytes) < Awaited /\ buffer' = bytes
             /\ UNCHANGED <<receiving, message_size, received>>
          \/ /\ Len(bytes) = Awaited /\ buffer' = <<>>
             /\ IF receiving = "size" THEN SizeRead(bytes)
                ELSE Deliver(bytes) /\ UNCHANGED message_size
  /\ UNCHANGED <<senderVars, connection>>

\* Fault: the end of the connection is taken for the end of the message.
ReadFails_Delivers ==
  /\ receiving # "failed"
  /\ (connection = "closed" /\ wire = <<>>) \/ connection = "reset"
  /\ IF receiving = "data" THEN Deliver(buffer) ELSE receiving' = "failed" /\ UNCHANGED received
  /\ UNCHANGED <<senderVars, wire, connection, message_size, buffer>>

\* read fails, or answers 0 because the connection is closed: NULL to the caller,
\* which closes its socket.
ReadFails ==
  /\ receiving # "failed"
  /\ (connection = "closed" /\ wire = <<>>) \/ connection = "reset"
  /\ receiving' = "failed"
  /\ UNCHANGED <<senderVars, wire, connection, message_size, buffer, received>>

-----------------------------------------------------------------------------

Next ==
  SendMessage \/ Write \/ WriteFails \/ Close \/ Reset \/ Read \/ ReadFails

Spec == Init /\ [][Next]_vars

\* The receiver reads what there is to read.
FairSpec == Spec /\ WF_vars(Read) /\ WF_vars(ReadFails)

-----------------------------------------------------------------------------
(* Properties.                                                             *)

\* The bytes that a message makes, and those of a sequence of messages.
Frame(m) == htonl(Len(m)) \o m

Stream(messages) ==
  LET upto[n \in 0 .. Len(messages)] ==
        IF n = 0 THEN <<>> ELSE upto[n - 1] \o Frame(messages[n])
  IN  upto[Len(messages)]

\* What the receiver has read of the message it is reading.
Consumed ==
  IF receiving = "data" THEN htonl(message_size) \o buffer ELSE buffer

\* What the sender has not yet given to write.
Unsent == Unwritten \o (IF sending = "size" THEN message ELSE <<>>)

\* However write and read cut the stream, and as long as it is not broken, no byte is
\* lost, repeated or moved: what was received, is being read, is under way and is
\* still to be written are together the messages that were sent.
StreamExact ==
  /\ connection = "open" =>
       receiving # "failed" /\ Stream(received) \o Consumed \o wire \o Unsent = Stream(sent)
  /\ connection = "closed" /\ receiving # "failed" =>
       IsPrefix(Stream(received) \o Consumed \o wire, Stream(sent))

\* The two ends agree: what was received is what was sent first, a buffer that is being
\* written or read is not complete, and a message is read with the size that it has.
EndsConsistent ==
  /\ sending # "idle" => connection # "closed" /\ written_size < Len(Outgoing)
  /\ IsPrefix(received, sent)
  /\ receiving = "size" => Len(buffer) < SizeOfInt
  /\ receiving = "data" => /\ Len(received) < Len(sent)
                           /\ message_size = Len(sent[Len(received) + 1])
                           /\ Len(buffer) < message_size

Bytes == Seq(0 .. Radix - 1)

TypeOK ==
  /\ sending \in {"idle", "size", "data"} /\ message \in Payloads \cup {<<>>}
  /\ written_size \in Nat
  /\ wire \in Bytes /\ connection \in {"open", "closed", "reset"}
  /\ receiving \in {"size", "data", "failed"} /\ message_size \in Int /\ buffer \in Bytes
  /\ sent \in Seq(Payloads) /\ received \in Seq(Payloads)

\* The inductive invariant behind StreamExact and the channel.
IInv == TypeOK /\ EndsConsistent /\ StreamExact

\* The two functions implement a channel of whole messages.
Channel == INSTANCE MessageChannel WITH
             pipe <- SubSeq(sent, Len(received) + 1, Len(sent)),
             got <- received,
             open <- receiving # "failed"
ImplementsChannel == Channel!Spec

\* The messages that have been written to the last byte.
Complete == Len(sent) - (IF sending = "idle" THEN 0 ELSE 1)

\* A message that has been sent whole is received, also when the sender closes right
\* after it, unless the connection breaks.
SentIsReceived ==
  \A n \in 1 .. MaxMessages :
    connection = "open" /\ Complete >= n ~> Len(received) >= n \/ connection = "reset"
=============================================================================
