---------------------------- MODULE ProtobufWire ----------------------------
(***************************************************************************)
(* The encoding the generated protobuf code of the threshold signatures    *)
(* shares: variable-length integers, and fields with the size each takes.  *)
(*                                                                         *)
(* Bytes are numbers and byte slices are sequences. The widths of uint64   *)
(* and int32 are parameters: what matters is that an int32 is sign-        *)
(* extended to a word, and that a word fills its last group only partly    *)
(* (64 = 9 * 7 + 1).                                                       *)
(***************************************************************************)
EXTENDS Integers, Sequences, SequencesExt

CONSTANTS WordBits, IntBits     \* 64 and 32 in the code

\* The tags of the messages fit.
ASSUME WidthAssumption == {WordBits, IntBits} \subseteq Nat /\ 8 <= IntBits /\ IntBits <= WordBits

Byte == 0..255
Int32s == -(2^(IntBits - 1))..(2^(IntBits - 1) - 1)

Signed(n, bits) ==
    LET u == n % 2^bits IN IF u >= 2^(bits - 1) THEN u - 2^bits ELSE u
Word(n) == n % 2^WordBits

\* Groups of seven bits that are read before the shift reaches the width.
Groups == (WordBits + 6) \div 7

\* The bits of x|1.
Len64(x) == CHOOSE n \in 1..(x + 1) : x < 2^n /\ (n = 1 \/ x >= 2^(n - 1))

\* Mutant of sov: rounded up too far.
sovRounded(x) == (Len64(x) + 7) \div 7

sov(x) == (Len64(x) + 6) \div 7

encodeVarint(v) ==
    [i \in 1..sov(v) |->
        LET rest == v \div 2^(7 * (i - 1))
        IN IF rest >= 128 THEN (rest % 128) + 128 ELSE rest]

\* The value of groups that were read, the lowest first, in the given width.
GroupsValue(groups, bits) == FoldLeft(LAMBDA v, group : (v + group) % 2^bits, 0, groups)

\* The varint at index i: its value in the given width and the index after it,
\* or not ok when the input ends or no group ends the number.
decodeVarint(dAtA, i, bits) ==
    LET ends == {n \in 0..(Groups - 1) : i + n < Len(dAtA) /\ dAtA[i + n + 1] < 128}
        last == Min(ends)
        groups == [n \in 1..(last + 1) |-> (dAtA[i + n] % 128) * 2^(7 * (n - 1))]
    IN IF ends = {} THEN [ok |-> FALSE, value |-> 0, next |-> i]
       ELSE [ok |-> TRUE, value |-> GroupsValue(groups, bits), next |-> i + last + 1]

----------------------------------------------------------------------------
(* Fields: what is written, and how much Size counts for it. A field with  *)
(* the zero value is not written; the elements of a list always are.       *)

Tag(num, wireType) == <<8 * num + wireType>>

Delimited(num, content) == Tag(num, 2) \o encodeVarint(Len(content)) \o content
BytesField(num, b) == IF b = <<>> THEN <<>> ELSE Delimited(num, b)
ListField(num, contents) == FlattenSeq([i \in DOMAIN contents |-> Delimited(num, contents[i])])
BoolField(num, b) == IF b THEN Tag(num, 0) \o <<1>> ELSE <<>>
IntField(num, n) == IF n # 0 THEN Tag(num, 0) \o encodeVarint(Word(n)) ELSE <<>>

DelimitedSize(l) == 1 + l + sov(l)
BytesSize(b) == IF b = <<>> THEN 0 ELSE DelimitedSize(Len(b))
ListSize(sizes) == FoldLeft(LAMBDA n, l : n + DelimitedSize(l), 0, sizes)
BoolSize(b) == IF b THEN 2 ELSE 0
IntSize(n) == IF n # 0 THEN 1 + sov(Word(n)) ELSE 0

Lengths(list) == [i \in DOMAIN list |-> Len(list[i])]

\* Entries of the tables that say how a message reads its fields.
Bytes(field) == [name |-> field, type |-> "bytes", of |-> "none"]
Bool(field) == [name |-> field, type |-> "bool", of |-> "none"]
Int32(field) == [name |-> field, type |-> "int32", of |-> "none"]
BytesList(field) == [name |-> field, type |-> "list", of |-> "none"]
Message(field, msg) == [name |-> field, type |-> "message", of |-> msg]
MessageList(field, msg) == [name |-> field, type |-> "messages", of |-> msg]

WireTypeOf(type) == IF type \in {"bool", "int32"} THEN 0 ELSE 2
=============================================================================
