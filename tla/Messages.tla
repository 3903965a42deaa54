------------------------------ MODULE Messages ------------------------------
(***************************************************************************)
(* Data, entries and the messages that carry them: source/data.c, entry.c  *)
(* and message-private.c, and what protocol buffers (sdmessage.proto) do   *)
(* to a message between its packing and its unpacking.                     *)
(*                                                                         *)
(* A pointer is its referent or NULL, a char* its string, and a block of   *)
(* memory the sequence of its bytes, for nothing in these files aliases:   *)
(* every conversion copies.  malloc succeeds.                              *)
(***************************************************************************)
EXTENDS Integers, Sequences

CONSTANTS
  NULL,
  Strings,  \* the strings that are keys, in the order of strcmp
  Bytes     \* the bytes of values

\* NULL is no number, string, array or structure.
ASSUME MessagesAssumption ==
  LET datas == [datasize: Nat, data: Seq(Bytes) \cup {NULL}]
      dataMessages == [len: Nat, data: Seq(Bytes) \cup {NULL}]
      strings == [str: Strings]
      entryMessages == [key: strings \cup {NULL}, value: dataMessages \cup {NULL}]
      keysMessages == [n_keys: Nat, keys: Seq(Strings) \cup {NULL}]
      contents == Int \cup dataMessages \cup entryMessages \cup keysMessages \cup {NULL}
      cases == {"NONE", "KEY", "VALUE", "ENTRY", "KEYS", "INT_RESULT", "OP_ID"}
  IN /\ Strings \subseteq Int
     /\ NULL \notin Int /\ NULL \notin Seq(Bytes) /\ NULL \notin Seq(Strings)
     /\ NULL \notin datas /\ NULL \notin dataMessages /\ NULL \notin strings
     /\ NULL \notin [key: Strings \cup {NULL}, value: datas \cup {NULL}]
     /\ NULL \notin entryMessages /\ NULL \notin keysMessages
     /\ NULL \notin [op_code: Int, content_case: cases, content: contents]

-----------------------------------------------------------------------------
(* data.c and entry.c                                                      *)

areParamsInvalid(size, data) == size < 0 \/ (size # 0 /\ data = NULL)

data_create2(size, data) ==
  IF areParamsInvalid(size, data) THEN NULL ELSE [datasize |-> size, data |-> data]

\* data_create(0), which stands for a key that was not found.
NotFound == data_create2(0, NULL)

\* Fault: the last byte is not copied, and holds whatever malloc gave.
copy_Short(something, size) ==
  IF something = NULL THEN NULL ELSE [i \in 1 .. size |-> IF i < size THEN something[i] ELSE 1]

copy(something, size) == IF something = NULL THEN NULL ELSE SubSeq(something, 1, size)

data_dup(dataStruct) ==
  IF dataStruct = NULL THEN NULL
  ELSE LET d == dataStruct IN
       IF areParamsInvalid(d.datasize, d.data) THEN NULL
       ELSE data_create2(d.datasize, copy(d.data, d.datasize))

entry_create(key, data) == [key |-> key, value |-> data]

key_compare(key1, key2) ==
  IF key1 = key2 THEN 0
  ELSE IF key1 = NULL \/ (key2 # NULL /\ key1 < key2) THEN -1 ELSE 1

-----------------------------------------------------------------------------
(* sdmessage.proto: op_code and content_case, and with them the type of    *)
(* content.                                                                *)

OpCode == [BAD |-> 0, SIZE |-> 10, DEL |-> 20, GET |-> 30, PUT |-> 40,
           GETKEYS |-> 50, HEIGHT |-> 60, VERIFY |-> 70, ERROR |-> 99]

Message(op_code, content_case, content) ==
  [op_code |-> op_code, content_case |-> content_case, content |-> content]

\* Memory is allocated for bytes and for arrays only when there are some.
Array(seq) == IF seq = <<>> THEN NULL ELSE seq

DataMessages == {[len |-> Len(bytes), data |-> Array(bytes)] : bytes \in Seq(Bytes)}
NullableStrings == [str: Strings]
EntryMessages == [key: NullableStrings \cup {NULL}, value: DataMessages \cup {NULL}]
KeysMessages == {[n_keys |-> Len(keys), keys |-> Array(keys)] : keys \in Seq(Strings)}

\* The messages that the functions of the project build; a union with a message in
\* it has one.
MessageTypes ==
  [op_code: Int, content_case: {"NONE"}, content: {NULL}]
  \cup [op_code: Int, content_case: {"KEY"}, content: Strings]
  \cup [op_code: Int, content_case: {"VALUE"}, content: DataMessages]
  \cup [op_code: Int, content_case: {"ENTRY"}, content: EntryMessages]
  \cup [op_code: Int, content_case: {"KEYS"}, content: KeysMessages]
  \cup [op_code: Int, content_case: {"INT_RESULT", "OP_ID"}, content: Int]

-----------------------------------------------------------------------------
(* message-private.c                                                       *)

data_to_msg(d) ==
  IF d = NULL THEN NULL ELSE [len |-> d.datasize, data |-> copy(d.data, d.datasize)]

msg_to_data(msg) ==
  IF msg = NULL THEN NULL ELSE data_create2(msg.len, copy(msg.data, msg.len))

DataMessage_dup(msg) ==
  IF msg = NULL THEN NULL ELSE [len |-> msg.len, data |-> copy(msg.data, msg.len)]

string_to_msg(string) == IF string = NULL THEN NULL ELSE [str |-> string]
msg_to_string(msg)    == IF msg = NULL THEN NULL ELSE msg.str

entry_to_msg(entry) ==
  IF entry = NULL THEN NULL
  ELSE [key |-> string_to_msg(entry.key), value |-> data_to_msg(entry.value)]

msg_to_entry(msg) ==
  IF msg = NULL THEN NULL
  ELSE entry_create(msg_to_string(msg.key), msg_to_data(msg.value))

EntryMessage_dup(msg) ==
  IF msg = NULL THEN NULL
  ELSE [key   |-> IF msg.key = NULL THEN NULL ELSE string_to_msg(msg.key.str),
        value |-> DataMessage_dup(msg.value)]

\* An array of strings and the NULL at its end: the sequence of its strings.  The
\* array of an empty message is not allocated.
keys_to_msg(keys) ==
  IF keys = NULL THEN NULL
  ELSE [n_keys |-> Len(keys), keys |-> Array(keys)]

msg_to_keys(msg) ==
  IF msg = NULL THEN NULL
  ELSE IF msg.n_keys = 0 THEN <<>> ELSE SubSeq(msg.keys, 1, msg.n_keys)

KeysMessage_dup(msg) ==
  IF msg = NULL THEN NULL
  ELSE [n_keys |-> msg.n_keys, keys |-> Array(msg_to_keys(msg))]

\* Fault: the case of entries falls through.
Message_dup_NoEntry(msg) ==
  Message(msg.op_code, msg.content_case,
    CASE msg.content_case = "VALUE" -> DataMessage_dup(msg.content)
      [] msg.content_case = "KEYS"  -> KeysMessage_dup(msg.content)
      [] msg.content_case = "ENTRY" -> NULL
      [] OTHER -> msg.content)

Message_dup(msg) ==
  Message(msg.op_code, msg.content_case,
    CASE msg.content_case = "VALUE" -> DataMessage_dup(msg.content)
      [] msg.content_case = "ENTRY" -> EntryMessage_dup(msg.content)
      [] msg.content_case = "KEYS"  -> KeysMessage_dup(msg.content)
      [] OTHER -> msg.content)

-----------------------------------------------------------------------------
(* The wire: of each message the fields that proto3 writes.  A field that  *)
(* is a message is written unless its pointer is NULL; bytes and repeated  *)
(* fields are written unless they are empty; numbers in content always.    *)

PackData(msg)   == IF msg.len = 0 THEN <<>> ELSE SubSeq(msg.data, 1, msg.len)
UnpackData(w)   == [len |-> Len(w), data |-> Array(w)]

PackEntry(msg) ==
  [key   |-> msg_to_string(msg.key),
   value |-> IF msg.value = NULL THEN NULL ELSE PackData(msg.value)]
UnpackEntry(w) ==
  [key   |-> string_to_msg(w.key),
   value |-> IF w.value = NULL THEN NULL ELSE UnpackData(w.value)]

PackMessage(msg) ==
  IF msg.content = NULL THEN Message(msg.op_code, "NONE", NULL)
  ELSE Message(msg.op_code, msg.content_case,
         CASE msg.content_case = "VALUE" -> PackData(msg.content)
           [] msg.content_case = "ENTRY" -> PackEntry(msg.content)
           [] msg.content_case = "KEYS"  -> msg_to_keys(msg.content)
           [] OTHER -> msg.content)

UnpackMessage(w) ==
  Message(w.op_code, w.content_case,
    CASE w.content_case = "VALUE" -> UnpackData(w.content)
      [] w.content_case = "ENTRY" -> UnpackEntry(w.content)
      [] w.content_case = "KEYS"  -> keys_to_msg(w.content)
      [] OTHER -> w.content)

\* message_to_buffer at one end of a connection and buffer_to_message at the other.
Sent(msg) == UnpackMessage(PackMessage(msg))
=============================================================================
