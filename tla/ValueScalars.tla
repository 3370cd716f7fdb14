---------------------------- MODULE ValueScalars ----------------------------
(***************************************************************************)
(* The scalar values of src/3rd_party/value.c: how one VALUE is            *)
(* initialized, in place or with a block of its own, what its getters      *)
(* convert it to, and when value_is_compatible() calls a conversion safe.  *)
(* Numbers also come from JSON texts, by init_number() of json-dom.c.      *)
(***************************************************************************)
EXTENDS JsonNumbers

CONSTANTS
  ValueSize,    \* sizeof(VALUE)
  SizeOf,       \* of the payload of each type, except strings
  GroupBits,    \* of the length of a string, in one byte of its header
  IntBits,      \* the width of int
  SizeBits,     \* the width of size_t
  Texts,        \* JSON numbers the application reads
  Doubles,      \* the sizes of doubles and floats it initializes
  Lengths       \* of its strings

ASSUME ScalarsAssumption ==
  /\ {ValueSize, SizeBits} \subseteq Nat /\ {GroupBits, IntBits} \subseteq Nat \ {0}
  /\ IntBits <= SizeBits
  /\ \A text \in Texts : text \in Seq(0 .. 255) /\ IsNumber(text)
  /\ \A d \in Doubles : d \in Int /\ Nearest(d, 1, DoubleBits) = d
  /\ Lengths \subseteq 0 .. 2 ^ (IntBits - 1) - 1

VARIABLES
  v,       \* its type, whether IS_MALLOCED is set, and its payload
  blocks,  \* allocated and not freed
  given    \* history: what the last initializer was given

vars == <<v, blocks, given>>

Value(type, malloced, payload) == [type |-> type, malloced |-> malloced, payload |-> payload]
None == <<>>

Init == v = Value("NULL", FALSE, None) /\ blocks = 0 /\ given = None

-----------------------------------------------------------------------------
(* Initializers *)

(* Mutant of value_init_ex: the byte of the type is not counted, and what  *)
(* is behind the VALUE belongs to another one.                             *)
value_init_ex_tight(type, size, align, payload) ==
  LET kept == [k \in DOMAIN payload |-> IF k < ValueSize THEN payload[k] ELSE 1]
  IN IF size <= ValueSize
       THEN v' = Value(type, FALSE, kept) /\ UNCHANGED blocks
       ELSE v' = Value(type, TRUE, payload) /\ blocks' = blocks + 1

value_init_ex(type, size, align, payload) ==
  \/ /\ size + align <= ValueSize
     /\ v' = Value(type, FALSE, payload) /\ UNCHANGED blocks
  \/ /\ size + align > ValueSize
     /\ v' = Value(type, TRUE, payload) /\ blocks' = blocks + 1
  \/ /\ size + align > ValueSize      \* no memory
     /\ v' = Value("NULL", FALSE, None) /\ UNCHANGED blocks

(* A number of its own type *)
value_init_number(type, num) ==
  value_init_ex(type, SizeOf[type], 1, <<num>>) /\ given' = <<>>

value_init_bool(b) ==
  /\ v' = Value("BOOL", FALSE, <<IF b # 0 THEN 1 ELSE 0>>)
  /\ given' = <<>> /\ UNCHANGED blocks

(* init_number() *)
InitNumber(text) ==
  /\ LET n == init_number(text) IN value_init_ex(n.type, SizeOf[n.type], 1, <<n.num>>)
  /\ given' = text

Flag == 2 ^ GroupBits

(* The length in groups of bits, the low ones first; all but the last have *)
(* the flag.                                                               *)
Header(len) ==
  LET groups[n \in 0 .. len] ==
        IF n >= Flag THEN <<Flag + (n % Flag)>> \o groups[n \div Flag] ELSE <<n>>
  IN groups[len]

value_init_string_(str) ==
  LET payload == Header(Len(str)) \o str \o <<0>>
  IN value_init_ex("STRING", Len(payload), 1, payload) /\ given' = str

(* Empty ones: their items are the subject of other modules. *)
value_init_container(type) ==
  value_init_ex(type, SizeOf[type], 8, None) /\ given' = <<>>

value_fini ==
  /\ blocks' = IF v.malloced THEN blocks - 1 ELSE blocks
  /\ v' = Value("NULL", FALSE, None) /\ given' = <<>>

Strings == {[k \in 1 .. n |-> 2 * Flag - 1] : n \in Lengths}

Next ==
  \/ /\ v.type = "NULL"
     /\ \/ \E type \in IntTypes : \E n \in MinOf(type) .. MaxOf(type) : value_init_number(type, n)
        \/ \E d \in Doubles : value_init_number("DOUBLE", d)
        \/ \E d \in {d \in Doubles : Nearest(d, 1, FloatBits) = d} : value_init_number("FLOAT", d)
        \/ \E b \in {0, 1, 2} : value_init_bool(b)
        \/ \E text \in Texts : InitNumber(text)
        \/ \E str \in Strings : value_init_string_(str)
        \/ \E type \in {"ARRAY", "DICT"} : value_init_container(type)
  \/ v.type # "NULL" /\ value_fini

Spec == Init /\ [][Next]_vars

-----------------------------------------------------------------------------
(* Getters *)

IsFloating == v.type \in {"FLOAT", "DOUBLE"}
Payload    == v.payload[1]

value_bool == IF v.type = "BOOL" THEN Payload ELSE -1

(* The cast of a floating number without its fraction to an integer type,  *)
(* as x86-64 does it also where C leaves it undefined: through a signed    *)
(* type that answers its least value to what it cannot hold.               *)
Truncated(d) == IF d < 0 THEN -((-d) \div 2 ^ Fraction) ELSE d \div 2 ^ Fraction

Signed(n, type) == IF n \in MinOf(type) .. MaxOf(type) THEN n ELSE MinOf(type)

ToInteger(n, type) ==
  CASE IsSigned(type)   -> Signed(n, type)
    [] type = "UINT32"  -> Cast(Signed(n, "INT64"), type)
    [] type = "UINT64"  -> IF n <= MaxOf("INT64") THEN Cast(Signed(n, "INT64"), type)
                           ELSE Cast(Signed(n + MinOf("INT64"), "INT64") - MinOf("INT64"), type)

ROUND(type, d, bits) ==
  LET half == 2 ^ (Fraction - 1)
  IN ToInteger(Truncated(Nearest(IF d >= 0 THEN d + half ELSE d - half, 1, bits)), type)

SignificantBits(type) == IF type = "FLOAT" THEN FloatBits ELSE DoubleBits

(* value_int32(), value_uint32(), value_int64(), value_uint64() *)
value_int(type) ==
  CASE v.type \in IntTypes -> Cast(Payload, type)
    [] IsFloating          -> ROUND(type, Payload, SignificantBits(v.type))
    [] OTHER               -> Cast(-1, type)

(* value_float(), value_double() *)
value_floating(type) ==
  CASE v.type \in IntTypes -> Nearest(Units(Payload), 1, SignificantBits(type))
    [] IsFloating          -> Nearest(Payload, 1, SignificantBits(type))
    [] OTHER               -> Units(-1)

(* Mutant of ComesBack: two conversions are compared instead. *)
ComesBackWide(type) == value_int("INT64") = value_int(type)

(* A float or double is the same when it is converted there and back.      *)
ComesBack(type) ==
  value_floating(v.type) = Nearest(Units(value_int(type)), 1, SignificantBits(v.type))

value_is_compatible(type) ==
  LET n == value_int(v.type)     \* the getter of its own type
  IN \/ type = v.type
     \/ v.type \in IntTypes /\ type \in {"FLOAT", "DOUBLE"}
     \/ v.type = "INT32" /\ (type = "INT64" \/ (type \in {"UINT32", "UINT64"} /\ n >= 0))
     \/ v.type = "UINT32" /\ (type \in {"INT64", "UINT64"} \/ (type = "INT32" /\ n <= MaxOf("INT32")))
     \/ v.type = "INT64" /\ (\/ type = "INT32" /\ n >= MinOf("INT32") /\ n <= MaxOf("INT32")
                             \/ type = "UINT32" /\ n >= 0 /\ n <= MaxOf("UINT32")
                             \/ type = "UINT64" /\ n >= 0)
     \/ v.type = "UINT64" /\ (\/ type = "INT32" /\ n <= MaxOf("INT32")
                              \/ type = "UINT32" /\ n <= MaxOf("UINT32")
                              \/ type = "INT64" /\ n <= MaxOf("INT64"))
     \/ v.type = "FLOAT" /\ (type = "DOUBLE" \/ (type \in IntTypes /\ ComesBack(type)))
     \/ v.type = "DOUBLE" /\ (type = "FLOAT" \/ (type \in IntTypes /\ ComesBack(type)))

(* Both walk over the header; a group is shifted as an int and then made a *)
(* size_t, with its sign.                                                  *)
HeaderLength == SelectInSeq(v.payload, LAMBDA byte : byte < Flag)

value_string == SubSeq(v.payload, HeaderLength + 1, Len(v.payload))

value_string_length ==
  LET AsInt(n) == ((n + 2 ^ (IntBits - 1)) % 2 ^ IntBits) - 2 ^ (IntBits - 1)
      group(k) == AsInt((v.payload[k] % Flag) * 2 ^ (GroupBits * (k - 1)))
      len[k \in 0 .. HeaderLength] == IF k = 0 THEN 0 ELSE (len[k - 1] + group(k)) % 2 ^ SizeBits
  IN len[HeaderLength]

-----------------------------------------------------------------------------
(* Properties *)

IsNumeric == v.type \in IntTypes \cup {"FLOAT", "DOUBLE"}

(* The size of a number in units of the least double *)
Exactly == IF IsFloating THEN Payload ELSE Units(Payload)

(* value.h: "whether such conversion looses substantial information".  A   *)
(* conversion to an integer type that value_is_compatible() allows gives   *)
(* just the number, whatever rounding and overflow are on the way, and     *)
(* between integer types it allows each that does.                         *)
CompatibleKeepsNumber ==
  IsNumeric =>
    \A type \in IntTypes :
      /\ value_is_compatible(type) => Units(value_int(type)) = Exactly
      /\ v.type \in IntTypes /\ Payload \in MinOf(type) .. MaxOf(type) => value_is_compatible(type)

(* A number read from JSON gets the first type that holds it, and just its *)
(* size; with a fraction or an exponent it is the nearest double.          *)
NumbersKept ==
  IsNumeric /\ given # None =>
    LET q == Rational(given)
        Fits(type) == /\ \A k \in DOMAIN given : given[k] \in DIGIT \cup {Minus}
                      /\ q.num \in MinOf(type) .. MaxOf(type)
        order == <<"INT32", "UINT32", "INT64", "UINT64">>
    IN IF \E k \in 1 .. 4 : Fits(order[k])
         THEN \E k \in 1 .. 4 : /\ Fits(order[k]) /\ \A j \in 1 .. k - 1 : ~Fits(order[j])
                                /\ v.type = order[k] /\ Payload = q.num
         ELSE v.type = "DOUBLE" /\ Payload = Nearest(Units(q.num), q.den, DoubleBits)

(* A string comes back with its length and a zero behind it, in place or   *)
(* in a block, and a block is held by one value and by the header's claim. *)
StringKept ==
  /\ blocks = IF v.malloced THEN 1 ELSE 0
  /\ v.type = "STRING" =>
       /\ value_string_length = Len(given)
       /\ value_string = Append(given, 0)
       /\ (Len(v.payload) >= ValueSize) <=> v.malloced

ReadAgain == init_number(DumpedNumber(Number(v.type, Payload)))

(* What json_dump_...() writes of a number is a number of JSON that is     *)
(* read back as the same one, or as a double again that is written alike;  *)
(* json.c: "if we ever re-read the string again, we shall map it to double *)
(* again".  Integers below one are the subject of IntegersReadBack.        *)
ReadsBack ==
  IsNumeric /\ (v.type \in IntTypes => Payload > 0) =>
    LET text == DumpedNumber(Number(v.type, Payload))
    IN /\ IsNumber(text)
       /\ IF IsFloating THEN ReadAgain.type = "DOUBLE" /\ DumpedNumber(ReadAgain) = text
                        ELSE ReadAgain.num = Payload

(* json-dom.h: "Dump recursively all the DOM hierarchy out".  An integer   *)
(* of a document is written as one, whatever its sign.                     *)
IntegersReadBack ==
  v.type \in IntTypes => IsNumber(DumpedNumber(Number(v.type, Payload))) /\ ReadAgain.num = Payload

=============================================================================
