------------------------------ MODULE OrderedKeys ------------------------------
(***************************************************************************)
(* The keys of the stored trees: how a key, a sequence of values, becomes  *)
(* bytes (node/codec.ts), and the order the in-memory engine gives the     *)
(* same keys (storage.ts).  Two keys grow part by part; the order of the   *)
(* bytes is compared with the order of the values.                         *)
(*                                                                         *)
(* A number is a sign and a magnitude, whose bits a double orders; minus   *)
(* zero is the sign alone.  A date is a two's complement integer.  A       *)
(* string is the sequence of its UTF-8 bytes, one for which their order is *)
(* that of its UTF-16 units, which the in-memory engine compares.  Widths  *)
(* are scaled down: a byte and a double have Bits bits, and 0xff is the    *)
(* greatest byte.                                                          *)
(***************************************************************************)
EXTENDS Integers, Sequences, SequencesExt, FiniteSetsExt

CONSTANTS
  Bits,        \* bound: the bits of a number and of a date
  Bytes,       \* bound: the bytes strings are made of, from 0
  MaxString,   \* bound: the bytes of a string
  MaxParts     \* bound: the parts of a key

VARIABLES left, right

vars == <<left, right>>

Half == 2 ^ (Bits - 1)
Greatest == 255

Null == [type |-> "null"]
Flag(b) == [type |-> "boolean", value |-> b]
Number(negative, magnitude) ==
  [type |-> "number", negative |-> negative, magnitude |-> magnitude]
Instant(t) == [type |-> "date", time |-> t]
Text(s) == [type |-> "string", bytes |-> s]

Values ==
  {Null} \union {Flag(b) : b \in BOOLEAN}
  \union {Number(n, m) : n \in BOOLEAN, m \in 0..(Half - 1)}
  \union {Instant(t) : t \in (-Half)..(Half - 1)}
  \union {Text(s) : s \in UNION {[1..n -> Bytes] : n \in 0..MaxString}}

-----------------------------------------------------------------------------
(* The bytes of a key. *)

\* The bits of a double, all of them flipped when it is negative and the sign
\* alone when it is not.
FlippedBits(bits) == IF bits >= Half THEN 2 * Half - 1 - bits ELSE bits + Half

\* encodeNumber: -0 is written as 0.
EncodeNumber(n) ==
  FlippedBits(IF n.negative /\ n.magnitude # 0 THEN Half + n.magnitude ELSE n.magnitude)

\* encodeDate.
EncodeDate(t) == ((t % (2 * Half)) + Half) % (2 * Half)

\* A zero byte does not end the string.
Escaped(b) == IF b = 0 THEN <<0, Greatest>> ELSE <<b>>

\* encodeString.
EncodeString(bytes) == FlattenSeq([i \in DOMAIN bytes |-> Escaped(bytes[i])]) \o <<0, 0>>

EncodePart(part) ==
  CASE part.type = "null" -> <<16>>
    [] part.type = "boolean" -> IF part.value THEN <<33>> ELSE <<32>>
    [] part.type = "number" -> <<48, EncodeNumber(part)>>
    [] part.type = "date" -> <<64, EncodeDate(part.time)>>
    [] part.type = "string" -> <<80>> \o EncodeString(part.bytes)

EncodeOrderedKey(key) == FlattenSeq([i \in DOMAIN key |-> EncodePart(key[i])])

\* Mutant: the bound is a byte that a value may begin with.
NearBound(prefix) == Append(prefix, 80)
KeyPrefixUpperBound(prefix) == Append(prefix, Greatest)

\* Buffer.compare: whether the first differing byte, or the end, comes earlier.
Before(a, b) ==
  \E i \in 0..Len(a) :
    /\ i <= Len(b) /\ SubSeq(a, 1, i) = SubSeq(b, 1, i)
    /\ IF i = Len(a) THEN i < Len(b) ELSE i < Len(b) /\ a[i + 1] < b[i + 1]

-----------------------------------------------------------------------------
(* The order of the in-memory engine. *)

Rank(v) ==
  CASE v.type = "null" -> 0 [] v.type = "boolean" -> 1 [] v.type = "number" -> 2
    [] v.type = "date" -> 3 [] v.type = "string" -> 4

Real(n) == IF n.negative THEN -n.magnitude ELSE n.magnitude

\* compareStorageValues: negative, zero or positive.  Object.is tells the two
\* zeros apart and neither is less: the one given first comes after.
CompareStorageValues(a, b) ==
  IF a = b THEN 0
  ELSE IF Rank(a) # Rank(b) THEN Rank(a) - Rank(b)
  ELSE CASE a.type = "date" -> a.time - b.time
         [] a.type = "boolean" -> IF ~a.value THEN -1 ELSE 1
         [] a.type = "number" -> IF Real(a) < Real(b) THEN -1 ELSE 1
         [] a.type = "string" -> IF Before(a.bytes, b.bytes) THEN -1 ELSE 1

\* compareStorageKeys: the first part that differs, or else the length.
CompareStorageKeys(a, b) ==
  LET differing == {i \in DOMAIN a \intersect DOMAIN b : CompareStorageValues(a[i], b[i]) # 0}
  IN IF differing = {} THEN Len(a) - Len(b)
     ELSE CompareStorageValues(a[Min(differing)], b[Min(differing)])

\* storageKeyHasPrefix.
StorageKeyHasPrefix(key, prefix) ==
  /\ Len(key) >= Len(prefix)
  /\ \A i \in DOMAIN prefix : CompareStorageValues(key[i], prefix[i]) = 0

-----------------------------------------------------------------------------
Init == left = <<>> /\ right = <<>>

GrowLeft(v) == Len(left) < MaxParts /\ left' = Append(left, v) /\ UNCHANGED right
GrowRight(v) == Len(right) < MaxParts /\ right' = Append(right, v) /\ UNCHANGED left

Next == \E v \in Values : GrowLeft(v) \/ GrowRight(v)

Spec == Init /\ [][Next]_vars

-----------------------------------------------------------------------------
MinusZero(key) == \E i \in DOMAIN key : key[i] = Number(TRUE, 0)

\* Keys without a minus zero come in the same order as bytes and as values, so
\* that the trees and the in-memory engine scan rows alike (encodeOrderedKey,
\* compareStorageKeys).
OrderPreserved ==
  ~MinusZero(left) /\ ~MinusZero(right) =>
    (Before(EncodeOrderedKey(left), EncodeOrderedKey(right))
       <=> CompareStorageKeys(left, right) < 0)

\* Two keys have the same bytes only if they are the same but for the sign of a
\* zero: no row takes the place of another (encodeOrderedKey).
KeysKeptApart ==
  EncodeOrderedKey(left) = EncodeOrderedKey(right) =>
    /\ Len(left) = Len(right)
    /\ \A i \in DOMAIN left :
         \/ left[i] = right[i]
         \/ /\ left[i].type = "number" /\ right[i].type = "number"
            /\ Real(left[i]) = Real(right[i])

\* Scanning from the bytes of a prefix to its upper bound gives the keys that
\* begin with its parts and no others, so that a unique index finds the rows of a
\* value and an index scan those of a key (keyPrefixUpperBound).
PrefixIsRange ==
  ~MinusZero(left) /\ ~MinusZero(right) =>
    LET key == EncodeOrderedKey(left) prefix == EncodeOrderedKey(right) IN
    StorageKeyHasPrefix(left, right) <=>
      ~Before(key, prefix) /\ Before(key, KeyPrefixUpperBound(prefix))

=============================================================================
