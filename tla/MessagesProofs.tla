--------------------------- MODULE MessagesProofs ---------------------------
(***************************************************************************)
(* Proofs about Messages: whatever the strings and the bytes are, what     *)
(* packing and unpacking, copying and converting give back.                *)
(***************************************************************************)
EXTENDS Messages, SequenceTheorems, TLAPS

\* What a data_t can be: bytes, or none at all (data_create(0)).
Datas == {[datasize |-> Len(bytes), data |-> Array(bytes)] : bytes \in Seq(Bytes)}

Entries == [key: Strings \cup {NULL}, value: Datas \cup {NULL}]

\* Blocks of memory of their exact size, copied, are the same.
LEMMA CopyWhole ==
  ASSUME NEW bytes \in Seq(Bytes)
  PROVE  /\ copy(Array(bytes), Len(bytes)) = Array(bytes)
         /\ Len(bytes) \in Nat
         /\ bytes = <<>> <=> Len(bytes) = 0
         /\ Array(bytes) = NULL <=> bytes = <<>>
<1>1. Len(bytes) \in Nat /\ (bytes = <<>> <=> Len(bytes) = 0)
  BY EmptySeq, LenProperties
<1>2. bytes # NULL
  BY MessagesAssumption
<1>3. SubSeq(bytes, 1, Len(bytes)) = bytes
  BY SubSeqFull
<1> QED
  BY <1>1, <1>2, <1>3 DEF copy, Array

\* A DataMessage is the same after its copy, after its way over the wire, and after
\* its way through a data_t; and so is a data_t after its way through a DataMessage.
LEMMA DataMessageKept ==
  ASSUME NEW msg \in DataMessages
  PROVE  /\ msg # NULL
         /\ DataMessage_dup(msg) = msg
         /\ UnpackData(PackData(msg)) = msg
         /\ msg_to_data(msg) \in Datas
         /\ data_to_msg(msg_to_data(msg)) = msg
<1>1. PICK bytes \in Seq(Bytes) : msg = [len |-> Len(bytes), data |-> Array(bytes)]
  BY DEF DataMessages
<1>2. /\ copy(Array(bytes), Len(bytes)) = Array(bytes)
      /\ Len(bytes) \in Nat
      /\ bytes = <<>> <=> Len(bytes) = 0
      /\ Array(bytes) = NULL <=> bytes = <<>>
  BY CopyWhole
<1>3. msg.len = Len(bytes) /\ msg.data = Array(bytes)
  BY <1>1
<1>4. msg # NULL
  <2>1. msg \in [len: Nat, data: Seq(Bytes) \cup {NULL}]
    BY <1>1, <1>2 DEF Array
  <2> QED BY <2>1, MessagesAssumption
<1>5. DataMessage_dup(msg) = msg
  BY <1>1, <1>2, <1>3, <1>4 DEF DataMessage_dup
<1>6. UnpackData(PackData(msg)) = msg
  <2>1. PackData(msg) = bytes
    BY <1>2, <1>3, SubSeqFull DEF PackData, Array
  <2> QED BY <1>1, <2>1 DEF UnpackData
<1>7. msg_to_data(msg) = [datasize |-> Len(bytes), data |-> Array(bytes)]
  <2>1. ~areParamsInvalid(Len(bytes), Array(bytes))
    BY <1>2 DEF areParamsInvalid
  <2> QED BY <1>2, <1>3, <1>4, <2>1 DEF msg_to_data, data_create2
<1>8. msg_to_data(msg) \in Datas /\ msg_to_data(msg) # NULL
  <2>1. msg_to_data(msg) \in [datasize: Nat, data: Seq(Bytes) \cup {NULL}]
    BY <1>2, <1>7 DEF Array
  <2> QED BY <1>7, <2>1, MessagesAssumption DEF Datas
<1>9. data_to_msg(msg_to_data(msg)) = msg
  BY <1>1, <1>2, <1>7, <1>8 DEF data_to_msg
<1> QED
  BY <1>4, <1>5, <1>6, <1>8, <1>9

\* What is packed of a DataMessage are its bytes.
LEMMA PackedData ==
  ASSUME NEW msg \in DataMessages
  PROVE  PackData(msg) \in Seq(Bytes)
<1>1. PICK bytes \in Seq(Bytes) : msg = [len |-> Len(bytes), data |-> Array(bytes)]
  BY DEF DataMessages
<1> QED
  BY <1>1, CopyWhole, SubSeqFull DEF PackData, Array

\* Strings survive the message that makes them nullable.
LEMMA StringKept ==
  /\ \A s \in Strings \cup {NULL} :
       string_to_msg(s) \in NullableStrings \cup {NULL} /\ msg_to_string(string_to_msg(s)) = s
  /\ \A m \in NullableStrings \cup {NULL} :
       msg_to_string(m) \in Strings \cup {NULL} /\ string_to_msg(msg_to_string(m)) = m
  /\ \A m \in NullableStrings : m # NULL /\ string_to_msg(m.str) = m
<1>1. \A s \in Strings : s # NULL
  BY MessagesAssumption
<1>2. \A m \in NullableStrings : m # NULL /\ m = [str |-> m.str] /\ m.str \in Strings
  BY MessagesAssumption DEF NullableStrings
<1>3. ASSUME NEW s \in Strings
      PROVE  string_to_msg(s) = [str |-> s] /\ [str |-> s] \in NullableStrings
  BY <1>1 DEF string_to_msg, NullableStrings
<1>4. ASSUME NEW m \in NullableStrings
      PROVE  msg_to_string(m) = m.str
  BY <1>2 DEF msg_to_string
<1>5. string_to_msg(NULL) = NULL /\ msg_to_string(NULL) = NULL
  BY DEF string_to_msg, msg_to_string
<1>6. ASSUME NEW s \in Strings
      PROVE  msg_to_string(string_to_msg(s)) = s
  BY <1>3, <1>4
<1>7. ASSUME NEW m \in NullableStrings
      PROVE  string_to_msg(m.str) = m
  BY <1>2, <1>3
<1> QED
  BY <1>2, <1>3, <1>4, <1>5, <1>6, <1>7

\* An EntryMessage, with or without a key and a value, is the same after its copy,
\* after its way over the wire, and after its way through an entry_t.
LEMMA EntryMessageKept ==
  ASSUME NEW msg \in EntryMessages
  PROVE  /\ msg # NULL
         /\ EntryMessage_dup(msg) = msg
         /\ UnpackEntry(PackEntry(msg)) = msg
         /\ msg_to_entry(msg) \in Entries
         /\ entry_to_msg(msg_to_entry(msg)) = msg
<1>1. /\ msg = [key |-> msg.key, value |-> msg.value]
      /\ msg.key \in NullableStrings \cup {NULL} /\ msg.value \in DataMessages \cup {NULL}
  BY DEF EntryMessages
<1>2. msg # NULL
  <2>1. \A m \in DataMessages : m \in [len: Nat, data: Seq(Bytes) \cup {NULL}]
    BY CopyWhole DEF DataMessages, Array
  <2>2. msg \in [key: [str: Strings] \cup {NULL},
                value: [len: Nat, data: Seq(Bytes) \cup {NULL}] \cup {NULL}]
    BY <1>1, <2>1 DEF NullableStrings
  <2> QED BY <2>2, MessagesAssumption
<1>3. DataMessage_dup(msg.value) = msg.value
  BY <1>1, DataMessageKept DEF DataMessage_dup
<1>4. (IF msg.key = NULL THEN NULL ELSE string_to_msg(msg.key.str)) = msg.key
  BY <1>1, StringKept
<1>5. EntryMessage_dup(msg) = msg
  BY <1>1, <1>2, <1>3, <1>4 DEF EntryMessage_dup
<1>6. UnpackEntry(PackEntry(msg)) = msg
  <2>1. string_to_msg(msg_to_string(msg.key)) = msg.key
    BY <1>1, StringKept
  <2>2. CASE msg.value = NULL
    BY <1>1, <2>1, <2>2 DEF PackEntry, UnpackEntry
  <2>3. CASE msg.value # NULL
    <3>1. msg.value \in DataMessages
      BY <1>1, <2>3
    <3>2. UnpackData(PackData(msg.value)) = msg.value
      BY <3>1, DataMessageKept
    <3>3. PackData(msg.value) # NULL
      <4>1. PackData(msg.value) \in Seq(Bytes)
        BY <3>1, PackedData
      <4> QED BY <4>1, MessagesAssumption
    <3> QED BY <1>1, <2>1, <2>3, <3>2, <3>3 DEF PackEntry, UnpackEntry
  <2> QED BY <2>2, <2>3
<1>7. /\ msg_to_string(msg.key) \in Strings \cup {NULL}
      /\ string_to_msg(msg_to_string(msg.key)) = msg.key
  BY <1>1, StringKept
<1>8. msg_to_data(msg.value) \in Datas \cup {NULL} /\ data_to_msg(msg_to_data(msg.value)) = msg.value
  BY <1>1, DataMessageKept DEF msg_to_data, data_to_msg
<1>9. msg_to_entry(msg) = [key |-> msg_to_string(msg.key), value |-> msg_to_data(msg.value)]
  BY <1>2 DEF msg_to_entry, entry_create
<1>10. msg_to_entry(msg) \in Entries /\ msg_to_entry(msg) # NULL
  <2>1. \A d \in Datas : d \in [datasize: Nat, data: Seq(Bytes) \cup {NULL}]
    BY CopyWhole DEF Datas, Array
  <2>2. msg_to_entry(msg) \in
          [key: Strings \cup {NULL},
           value: [datasize: Nat, data: Seq(Bytes) \cup {NULL}] \cup {NULL}]
    BY <1>7, <1>8, <1>9, <2>1
  <2> QED BY <1>7, <1>8, <1>9, <2>2, MessagesAssumption DEF Entries
<1>11. entry_to_msg(msg_to_entry(msg)) = msg
  BY <1>1, <1>7, <1>8, <1>9, <1>10 DEF entry_to_msg
<1> QED
  BY <1>2, <1>5, <1>6, <1>10, <1>11

\* A KeysMessage, also one without keys, is the same after its copy and after its way
\* over the wire, and the list of keys after its way through one.
LEMMA KeysMessageKept ==
  /\ \A keys \in Seq(Strings) :
       keys_to_msg(keys) \in KeysMessages /\ msg_to_keys(keys_to_msg(keys)) = keys
  /\ \A msg \in KeysMessages :
       /\ msg # NULL /\ msg_to_keys(msg) \in Seq(Strings)
       /\ KeysMessage_dup(msg) = msg
       /\ keys_to_msg(msg_to_keys(msg)) = msg
<1> DEFINE built(keys) == [n_keys |-> Len(keys), keys |-> Array(keys)]
<1>1. ASSUME NEW keys \in Seq(Strings)
      PROVE  /\ keys_to_msg(keys) = built(keys) /\ built(keys) # NULL
             /\ msg_to_keys(built(keys)) = keys
             /\ KeysMessage_dup(built(keys)) = built(keys)
  <2>1. Len(keys) \in Nat /\ (keys = <<>> <=> Len(keys) = 0) /\ keys # NULL
    BY EmptySeq, LenProperties, MessagesAssumption
  <2>2. built(keys) # NULL
    <3>1. built(keys) \in [n_keys: Nat, keys: Seq(Strings) \cup {NULL}]
      BY <2>1 DEF Array
    <3> QED BY <3>1, MessagesAssumption
  <2>3. msg_to_keys(built(keys)) = keys
    <3>1. SubSeq(keys, 1, Len(keys)) = keys
      BY SubSeqFull
    <3> QED BY <2>1, <2>2, <3>1 DEF msg_to_keys, Array
  <2>4. KeysMessage_dup(built(keys)) = built(keys)
    BY <2>2, <2>3 DEF KeysMessage_dup
  <2>5. keys_to_msg(keys) = built(keys)
    BY <2>1 DEF keys_to_msg
  <2> QED BY <2>2, <2>3, <2>4, <2>5
<1>2. ASSUME NEW msg \in KeysMessages
      PROVE  \E keys \in Seq(Strings) : msg = built(keys)
  BY DEF KeysMessages
<1>3. \A keys \in Seq(Strings) : built(keys) \in KeysMessages
  BY DEF KeysMessages
<1> HIDE DEF built
<1> QED
  BY <1>1, <1>2, <1>3

-----------------------------------------------------------------------------
(* The theorems.                                                           *)

\* No message that the project builds changes when it is packed at one end of a
\* connection and unpacked at the other, nor when Message_dup copies it, be its
\* content empty, zero, or without a key or a value.
THEOREM MessageKept ==
  \A msg \in MessageTypes : Sent(msg) = msg /\ Message_dup(msg) = msg
<1> SUFFICES ASSUME NEW msg \in MessageTypes
             PROVE  Sent(msg) = msg /\ Message_dup(msg) = msg
  OBVIOUS
<1>1. msg = Message(msg.op_code, msg.content_case, msg.content)
  BY DEF MessageTypes, Message
<1>2. CASE msg.content_case = "VALUE"
  <2>1. msg.content \in DataMessages
    BY <1>2 DEF MessageTypes
  <2>2. /\ msg.content # NULL /\ DataMessage_dup(msg.content) = msg.content
        /\ UnpackData(PackData(msg.content)) = msg.content
    BY <2>1, DataMessageKept
  <2> QED BY <1>1, <1>2, <2>2 DEF Sent, PackMessage, UnpackMessage, Message_dup, Message
<1>3. CASE msg.content_case = "ENTRY"
  <2>1. msg.content \in EntryMessages
    BY <1>3 DEF MessageTypes
  <2>2. /\ msg.content # NULL /\ EntryMessage_dup(msg.content) = msg.content
        /\ UnpackEntry(PackEntry(msg.content)) = msg.content
    BY <2>1, EntryMessageKept
  <2> QED BY <1>1, <1>3, <2>2 DEF Sent, PackMessage, UnpackMessage, Message_dup, Message
<1>4. CASE msg.content_case = "KEYS"
  <2>1. msg.content \in KeysMessages
    BY <1>4 DEF MessageTypes
  <2>2. /\ msg.content # NULL /\ KeysMessage_dup(msg.content) = msg.content
        /\ keys_to_msg(msg_to_keys(msg.content)) = msg.content
    BY <2>1, KeysMessageKept
  <2> QED BY <1>1, <1>4, <2>2 DEF Sent, PackMessage, UnpackMessage, Message_dup, Message
<1>5. CASE msg.content_case \in {"KEY", "INT_RESULT", "OP_ID"}
  <2>1. msg.content # NULL
    BY <1>5, MessagesAssumption DEF MessageTypes
  <2> QED BY <1>1, <1>5, <2>1 DEF Sent, PackMessage, UnpackMessage, Message_dup, Message
<1>6. CASE msg.content_case = "NONE"
  <2>1. msg.content = NULL
    BY <1>6 DEF MessageTypes
  <2> QED BY <1>1, <1>6, <2>1 DEF Sent, PackMessage, UnpackMessage, Message_dup, Message
<1> QED
  <2>1. msg.content_case \in {"NONE", "KEY", "VALUE", "ENTRY", "KEYS", "INT_RESULT", "OP_ID"}
    BY DEF MessageTypes
  <2> QED BY <1>2, <1>3, <1>4, <1>5, <1>6, <2>1

\* What the tree or a user puts into a message is what the other end takes out of it:
\* values, entries and lists of keys.
THEOREM ContentKept ==
  /\ \A d \in Datas : data_to_msg(d) \in DataMessages /\ msg_to_data(data_to_msg(d)) = d
  /\ \A msg \in EntryMessages : entry_to_msg(msg_to_entry(msg)) = msg
  /\ \A keys \in Seq(Strings) : msg_to_keys(keys_to_msg(keys)) = keys
<1>1. ASSUME NEW d \in Datas
      PROVE  data_to_msg(d) \in DataMessages /\ msg_to_data(data_to_msg(d)) = d
  <2>1. PICK bytes \in Seq(Bytes) : d = [datasize |-> Len(bytes), data |-> Array(bytes)]
    BY DEF Datas
  <2>2. d # NULL
    <3>1. d \in [datasize: Nat, data: Seq(Bytes) \cup {NULL}]
      BY <2>1, CopyWhole DEF Array
    <3> QED BY <3>1, MessagesAssumption
  <2>3. data_to_msg(d) = [len |-> Len(bytes), data |-> Array(bytes)]
    BY <2>1, <2>2, CopyWhole DEF data_to_msg
  <2>4. data_to_msg(d) \in DataMessages
    BY <2>3 DEF DataMessages
  <2>5. data_to_msg(d) # NULL
    BY <2>4, DataMessageKept
  <2>6. ~areParamsInvalid(Len(bytes), Array(bytes))
    BY CopyWhole DEF areParamsInvalid
  <2> QED BY <2>1, <2>3, <2>4, <2>5, <2>6, CopyWhole DEF msg_to_data, data_create2
<1> QED
  BY <1>1, EntryMessageKept, KeysMessageKept
=============================================================================
