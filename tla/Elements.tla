------------------------------- MODULE Elements -------------------------------
(* Indexed objects, byte strings, closures and hashes: the primitives that read    *)
(* and write them (primitives.cc), the short cuts the interpreter takes for at:,   *)
(* at:put: and size (interpreter.cc), and the hash of a string (object.cc).        *)
(*                                                                                *)
(* A primitive finds its arguments on the interpreter's stack, which the collector *)
(* knows. What it keeps in a C++ local is an address, and every allocation may be  *)
(* a collection that moves all objects to the other half of the heap: a local      *)
(* carries the half it was read in, and reads freed memory once that has changed.  *)
EXTENDS Integers, Sequences, SequencesExt, FiniteSetsExt

CONSTANTS
    kBitsPerByte,       \* globals.h
    kWordBytes,         \* the bytes of an int64_t and of a uintptr_t
    kFNVPrime,
    Salts,              \* values of the isolate's salt
    Randoms,            \* what its random number generator answers
    Worlds,             \* contents of the objects at the start
    Indices,            \* small integers passed as positions and lengths
    Integers64,         \* integers passed as values
    MaxCalls            \* not counting hash

VARIABLES
    objects,   \* the heap: objects[id], wherever it lies
    half,      \* where all of it lies, 0 or 1
    salt,
    call       \* the last primitive: its arguments, the heap before it, its outcome

vars == <<objects, half, salt, call>>

Word == 2^(kBitsPerByte * kWordBytes)
kMaxByte == 2^kBitsPerByte - 1
kMaxSmi == Word \div 4 - 1

\* Of words, bit by bit.
x ^^ y ==
    LET bit(word, i) == (word \div 2^i) % 2 IN
    FoldSet(LAMBDA i, sum : sum + 2^i * ((bit(x, i) + bit(y, i)) % 2), 0, 0..(kBitsPerByte * kWordBytes - 1))
ToSmi(word) == word % (kMaxSmi + 1)

\* A value is tagged by what it is; an object stands for itself wherever it lies.
Smi(n) == <<"smi", n>>
Boxed(n) == <<(IF n \in (-Word \div 2)..(Word \div 2 - 1) THEN "medium" ELSE "large"), n>>
Integer(n) == IF n \in (-kMaxSmi - 1)..kMaxSmi THEN Smi(n) ELSE Boxed(n)
Ref(id) == <<"object", id>>
nil == <<"nil", 0>>
True == <<"true", 1>>
False == <<"false", 0>>
Bool(b) == IF b THEN True ELSE False
Garbage == <<"garbage", 0>>

IsSmi(v) == v[1] = "smi"
IsByte(v) == IsSmi(v) /\ v[2] \in 0..kMaxByte

ByteClasses == {"ByteArray", "String"}

\* fields: a closure's activation, first instruction and number of arguments.
Object(class, elements) ==
    [class |-> class, elements |-> elements, fields |-> <<>>, hash |-> 0, canonical |-> FALSE]

\* What a primitive works on: the heap, the stack above a value of the caller, and
\* whether it failed, or activated a closure with so many arguments.
Below == <<"caller", 0>>
Machine(args) ==
    [objects |-> objects, half |-> half, stack |-> <<Below>> \o args, failed |-> FALSE, activated |-> -1]

ClassOf(m, v) == IF v[1] = "object" THEN m.objects[v[2]].class ELSE v[1]
IsBytes(m, v) == ClassOf(m, v) \in ByteClasses

Stack(m, i) == m.stack[Len(m.stack) - i]
\* A C++ local: a value, and where objects were when it was read.
Local(m, i) == [value |-> Stack(m, i), half |-> m.half]

Freed(object) ==
    [object EXCEPT !.elements = [i \in DOMAIN @ |-> IF object.class \in ByteClasses
                                                    THEN kMaxByte ELSE Garbage]]
Deref(m, local) == LET object == m.objects[local.value[2]] IN
    IF local.half = m.half THEN object ELSE Freed(object)
At(m, i) == Deref(m, Local(m, i))
\* Storing a local stores its address.
ValueOf(m, local) ==
    IF local.value[1] = "object" /\ local.half # m.half THEN Garbage ELSE local.value

Size(object) == Len(object.elements)

Fail(m) == [m EXCEPT !.failed = TRUE]
PopNAndPush(m, n, v) == [m EXCEPT !.stack = Append(SubSeq(@, 1, Len(@) - n), v)]
ReturnSelf(m, num_args) == [m EXCEPT !.stack = SubSeq(@, 1, Len(@) - num_args)]
Return(m, num_args, v) == PopNAndPush(m, num_args + 1, v)

SetElement(m, local, i, v) ==
    IF local.half = m.half THEN [m EXCEPT !.objects[local.value[2]].elements[i + 1] = v] ELSE m

\* Allocation, with the collection it needs if collects: the result is a local of
\* the machine that it leaves.
Allocate(m, object, collects) ==
    [m EXCEPT !.objects = Append(@, object), !.half = IF collects THEN 1 - @ ELSE @]
Allocated(m) == [value |-> Ref(Len(m.objects)), half |-> m.half]
ReturnNew(m, num_args) == Return(m, num_args, Ref(Len(m.objects)))

------------------------------------------------------------------------------
(* Elements one by one. *)

\* at: of every kind of array; box is what becomes of a raw element.
ElementAt(m, box(_)) ==
    LET index == Stack(m, 0)[2] - 1 IN
    IF ~IsSmi(Stack(m, 0)) \/ index < 0 \/ index >= Size(At(m, 1)) THEN Fail(m)
    ELSE Return(m, 1, box(At(m, 1).elements[index + 1]))

PutElement(m, unbox(_), accepts(_)) ==
    LET index == Stack(m, 1)[2] - 1 IN
    IF ~IsSmi(Stack(m, 1)) \/ index < 0 \/ index >= Size(At(m, 2)) \/ ~accepts(Stack(m, 0))
    THEN Fail(m)
    ELSE Return(SetElement(m, Local(m, 2), index, unbox(Stack(m, 0))), 2, Stack(m, 0))

Itself(v) == v
Anything(v) == TRUE
RawByte(v) == v[2]

NewElements(m, class, element, collects) ==
    LET length == Stack(m, 0) IN
    IF ~IsSmi(length) \/ length[2] < 0 THEN Fail(m)
    ELSE ReturnNew(Allocate(m, Object(class, [i \in 1..length[2] |-> element]), collects), 1)

Array_class_new(m, collects) == NewElements(m, "Array", nil, collects)
Array_at(m) == ElementAt(m, Itself)
Array_atPut(m) == PutElement(m, Itself, Anything)
Array_size(m) == Return(m, 0, Smi(Size(At(m, 0))))
WeakArray_class_new(m, collects) == NewElements(m, "WeakArray", nil, collects)
WeakArray_at(m) == ElementAt(m, Itself)
WeakArray_atPut(m) == PutElement(m, Itself, Anything)
WeakArray_size(m) == Return(m, 0, Smi(Size(At(m, 0))))
ByteArray_class_new(m, collects) == NewElements(m, "ByteArray", 0, collects)
ByteArray_at(m) == ElementAt(m, Smi)
ByteArray_atPut(m) == PutElement(m, RawByte, IsByte)
ByteArray_size(m) == Return(m, 0, Smi(Size(At(m, 0))))
String_at(m) == ElementAt(m, Smi)
String_size(m) == Return(m, 0, Smi(Size(At(m, 0))))

\* Slots through a mirror, which is the receiver itself: the object is an argument.
\* The count that the class keeps (its format) is the count of the slots.
HasSlots(m, v) == ClassOf(m, v) \in {"Slots", "Ephemeron"}
Object_instVarAt(m) ==
    LET index == Stack(m, 0)[2] IN
    IF ~HasSlots(m, Stack(m, 1)) \/ ~IsSmi(Stack(m, 0)) THEN Fail(m)
    ELSE IF index <= 0 \/ index > Size(At(m, 1)) THEN Fail(m)
    ELSE Return(m, 2, At(m, 1).elements[index])
Object_instVarAtPut(m) ==
    LET index == Stack(m, 1)[2] IN
    IF ~HasSlots(m, Stack(m, 2)) \/ ~IsSmi(Stack(m, 1)) THEN Fail(m)
    ELSE IF index <= 0 \/ index > Size(At(m, 2)) THEN Fail(m)
    ELSE Return(SetElement(m, Local(m, 2), index - 1, Stack(m, 0)), 3, Stack(m, 0))

\* Array_replaceFromToWithStartingAt and copyFromTo, and the same for bytes.
ReplaceStart(m) == Stack(m, 3)[2]
ReplaceCount(m) == Stack(m, 2)[2] - ReplaceStart(m) + 1
ReplacementStart(m) == Stack(m, 0)[2]
ReplaceFails(m, replaceable) ==
    \/ ~IsSmi(Stack(m, 3)) \/ ~IsSmi(Stack(m, 2)) \/ ~IsSmi(Stack(m, 0))
    \/ ClassOf(m, Stack(m, 1)) \notin replaceable
    \/ ReplaceStart(m) <= 0
    \/ /\ ReplaceCount(m) > 0
       /\ \/ Stack(m, 2)[2] > Size(At(m, 4))
          \/ ReplacementStart(m) <= 0
          \/ ReplacementStart(m) + ReplaceCount(m) - 1 > Size(At(m, 1))

\* Note replacement may be receiver: the order matters.
CopyOne(m, i) ==
    SetElement(m, Local(m, 4), ReplaceStart(m) - 1 + i, At(m, 1).elements[ReplacementStart(m) + i])
(* mutant: always upwards *)
CopyUpwards(m) == [i \in 1..ReplaceCount(m) |-> i - 1]
CopyOrder(m) ==
    IF ReplacementStart(m) < ReplaceStart(m)
    THEN [i \in 1..ReplaceCount(m) |-> ReplaceCount(m) - i]
    ELSE [i \in 1..ReplaceCount(m) |-> i - 1]
Array_replaceFromToWithStartingAt(m) ==
    IF ReplaceFails(m, {"Array"}) THEN Fail(m)
    ELSE IF ReplaceCount(m) <= 0 THEN ReturnSelf(m, 4)
    ELSE ReturnSelf(FoldLeft(CopyOne, m, CopyOrder(m)), 4)

memmove(m, to, first, from, start, count) ==
    [m EXCEPT !.objects[to.value[2]].elements =
        [i \in DOMAIN @ |-> IF i \in first..(first + count - 1)
                            THEN Deref(m, from).elements[start + i - first] ELSE @[i]]]
ByteArray_replaceFromToWithStartingAt(m) ==
    IF ReplaceFails(m, ByteClasses) THEN Fail(m)
    ELSE IF ReplaceCount(m) <= 0 THEN ReturnSelf(m, 4)
    ELSE ReturnSelf(memmove(m, Local(m, 4), ReplaceStart(m), Local(m, 1), ReplacementStart(m),
                            ReplaceCount(m)), 4)

\* The part of the receiver's elements, read again after the allocation.
CopyPart(m, class, receivers, collects) ==
    LET start == Stack(m, 1)[2]  stop == Stack(m, 0)[2] IN
    IF ~IsSmi(Stack(m, 1)) \/ ~IsSmi(Stack(m, 0)) \/ ClassOf(m, Stack(m, 2)) \notin receivers
    THEN Fail(m)
    ELSE IF start <= 0 \/ stop > Size(At(m, 2)) \/ stop - (start - 1) < 0 THEN Fail(m)
    ELSE LET fresh == [i \in 1..(stop - start + 1) |-> IF class = "Array" THEN nil ELSE 0]
             n == Allocate(m, Object(class, fresh), collects)
             array == Local(n, 2)
         IN ReturnNew(memmove(n, Allocated(n), 1, array, start, Len(fresh)), 2)
Array_copyFromTo(m, collects) == CopyPart(m, "Array", {"Array"}, collects)
Bytes_copyByteArrayFromTo(m, collects) == CopyPart(m, "ByteArray", ByteClasses, collects)
(* mutant: the receiver is not read again after the allocation *)
CopyStringStale(m, collects) ==
    LET start == Stack(m, 1)[2]  stop == Stack(m, 0)[2] IN
    IF ~IsSmi(Stack(m, 1)) \/ ~IsSmi(Stack(m, 0)) \/ ~IsBytes(m, Stack(m, 2)) THEN Fail(m)
    ELSE IF start <= 0 \/ stop > Size(At(m, 2)) \/ stop - (start - 1) < 0 THEN Fail(m)
    ELSE LET bytes == Local(m, 2)
             n == Allocate(m, Object("String", [i \in 1..(stop - start + 1) |-> 0]), collects)
         IN ReturnNew(memmove(n, Allocated(n), 1, bytes, start, stop - start + 1), 2)
Bytes_copyStringFromTo(m, collects) == CopyPart(m, "String", ByteClasses, collects)

------------------------------------------------------------------------------
(* Integers of several bytes, least significant first; offsets count from 0. *)

IntegerFormats ==
    [uint8 |-> [width |-> 1, signed |-> FALSE], int8 |-> [width |-> 1, signed |-> TRUE],
     uint16 |-> [width |-> 2, signed |-> FALSE], int16 |-> [width |-> 2, signed |-> TRUE],
     int64 |-> [width |-> kWordBytes, signed |-> TRUE]]

Range64(f) == 2^(kBitsPerByte * f.width)
MinOf(f) == IF f.signed THEN -(Range64(f) \div 2) ELSE 0
MaxOf(f) == IF f.signed THEN Range64(f) \div 2 - 1 ELSE Range64(f) - 1

Loaded(f, bytes) ==
    LET raw == FoldRight(LAMBDA byte, sum : sum * 2^kBitsPerByte + byte, bytes, 0) IN
    IF raw > MaxOf(f) THEN raw - Range64(f) ELSE raw
Stored(f, value) == [i \in 1..f.width |-> (value \div 2^(kBitsPerByte * (i - 1))) % 2^kBitsPerByte]

OffsetFails(m, f, i) ==
    LET index == Stack(m, i) IN
    ~IsSmi(index) \/ index[2] < 0 \/ index[2] + f.width > Size(At(m, i + 1))

\* RETURN_MINT may allocate, when nothing of the array is needed any more.
Bytes_integerAt(m, f, collects) ==
    IF OffsetFails(m, f, 0) THEN Fail(m)
    ELSE LET index == Stack(m, 0)[2]
             value == Loaded(f, SubSeq(At(m, 1).elements, index + 1, index + f.width))
         IN Return([m EXCEPT !.half = IF collects /\ ~IsSmi(Integer(value)) THEN 1 - @ ELSE @],
                   1, Integer(value))

\* static_cast<ctype>(value), once it is known to fit.
Bytes_integerAtPut(m, f) ==
    LET value == Stack(m, 0) IN
    IF \/ OffsetFails(m, f, 1) \/ value[1] \notin {"smi", "medium"}
    THEN Fail(m)
    ELSE IF value[2] < MinOf(f) \/ value[2] > MaxOf(f) THEN Fail(m)
    ELSE LET index == Stack(m, 1)[2]
             bytes == Stored(f, value[2])
         IN Return([m EXCEPT !.objects[Stack(m, 2)[2]].elements =
                        [i \in DOMAIN @ |-> IF i - index \in 1..f.width THEN bytes[i - index]
                                            ELSE @[i]]], 2, value)

------------------------------------------------------------------------------
(* Strings. *)

String_concat(m, collects) ==
    IF ClassOf(m, Stack(m, 1)) # "String" \/ ClassOf(m, Stack(m, 0)) # "String" THEN Fail(m)
    ELSE LET a_length == Size(At(m, 1))  b_length == Size(At(m, 0))
             n == Allocate(m, Object("String", [i \in 1..(a_length + b_length) |-> 0]), collects)
             a == Local(n, 1)  b == Local(n, 0)
             front == memmove(n, Allocated(n), 1, a, 1, a_length)
         IN ReturnNew(memmove(front, Allocated(n), a_length + 1, b, 1, b_length), 1)

\* FNV-1a over the length and the bytes, as wide as a word, salted, kept in the header.
Hashed(bytes) ==
    LET hash[i \in 0..Len(bytes)] ==
            IF i = 0 THEN Len(bytes) + 1 ELSE ((hash[i - 1] ^^ bytes[i]) * kFNVPrime) % Word
    IN ToSmi(hash[Len(bytes)] ^^ salt)
(* mutant: 0 is a hash like any other *)
HashOfZero(bytes) == Hashed(bytes)
HashOf(bytes) == IF Hashed(bytes) = 0 THEN 1 ELSE Hashed(bytes)
EnsureHash(m, v) ==
    IF m.objects[v[2]].hash # 0 THEN m
    ELSE [m EXCEPT !.objects[v[2]].hash = HashOf(m.objects[v[2]].elements)]
HeaderHash(m, v) == m.objects[v[2]].hash

String_hash(m) == LET n == EnsureHash(m, Stack(m, 0)) IN Return(n, 0, Smi(HeaderHash(n, Stack(n, 0))))

String_equals(m) ==
    LET left == Stack(m, 1)  right == Stack(m, 0) IN
    IF left = right THEN Return(m, 1, True)
    ELSE IF ClassOf(m, left) # "String" \/ ClassOf(m, right) # "String" THEN Return(m, 1, False)
    ELSE IF Size(At(m, 1)) # Size(At(m, 0)) THEN Return(m, 1, False)
    ELSE LET n == EnsureHash(EnsureHash(m, left), right) IN
         Return(n, 1, Bool(/\ HeaderHash(n, left) = HeaderHash(n, right)
                           /\ \A i \in 1..Size(At(n, 1)) :
                                At(n, 1).elements[i] = At(n, 0).elements[i]))

\* Do bytes agree with the whole of part from offset on?
Matches(bytes, part, offset) == \A i \in 1..Len(part) : bytes[offset + i] = part[i]
Affix(m, offset(_, _)) ==
    IF ~IsBytes(m, Stack(m, 1)) \/ ~IsBytes(m, Stack(m, 0)) THEN Fail(m)
    ELSE LET string == At(m, 1).elements  part == At(m, 0).elements IN
         Return(m, 1, Bool(/\ Len(part) <= Len(string)
                           /\ Matches(string, part, offset(Len(string), Len(part)))))
AtStart(string_length, part_length) == 0
AtEnd(string_length, part_length) == string_length - part_length
Bytes_startsWith(m) == Affix(m, AtStart)
Bytes_endsWith(m) == Affix(m, AtEnd)

\* Both searches, which differ in the positions they try, in order.
Search(m, positions(_, _)) ==
    LET start == Stack(m, 0) IN
    IF ~IsBytes(m, Stack(m, 1)) \/ ~IsSmi(start) THEN Fail(m)
    ELSE IF start[2] - 1 < 0 \/ start[2] - 1 > Size(At(m, 2)) THEN Fail(m)
    ELSE LET string == At(m, 2).elements  substring == At(m, 1).elements
             found == SelectSeq(positions(start[2] - 1, Len(string) - Len(substring)),
                                LAMBDA at : Matches(string, substring, at))
         IN Return(m, 2, Smi(IF found = <<>> THEN 0 ELSE Head(found) + 1))
Upwards(first, limit) == [i \in 1..(limit - first + 1) |-> first + i - 1]
Downwards(first, limit) == Reverse([i \in 1..((IF limit > first THEN first ELSE limit) + 1) |-> i - 1])
Bytes_indexOf(m) == Search(m, Upwards)
Bytes_lastIndexOf(m) == Search(m, Downwards)

String_class_with(m, collects) ==
    IF ~IsByte(Stack(m, 0)) THEN Fail(m)
    ELSE LET n == Allocate(m, Object("String", <<0>>), collects) IN
         ReturnNew(SetElement(n, Allocated(n), 0, Stack(m, 0)[2]), 1)

\* Of the bytes of a string or a byte array, or of an array of small integers.
WithAll(m, class, collects) ==
    IF ~IsBytes(m, Stack(m, 0)) /\ ClassOf(m, Stack(m, 0)) # "Array" THEN Fail(m)
    ELSE LET length == Size(At(m, 0))
             n == Allocate(m, Object(class, [i \in 1..length |-> 0]), collects)
             bytes == Local(n, 0)
         IN IF IsBytes(m, Stack(m, 0))
            THEN ReturnNew(memmove(n, Allocated(n), 1, bytes, 1, length), 1)
            ELSE IF \E i \in 1..length : ~IsByte(At(m, 0).elements[i]) THEN Fail(m)
            ELSE ReturnNew([n EXCEPT !.objects[Len(n.objects)].elements =
                               [i \in 1..length |-> RawByte(Deref(n, bytes).elements[i])]], 1)
String_class_withAll(m, collects) == WithAll(m, "String", collects)
ByteArray_class_withAll(m, collects) == WithAll(m, "ByteArray", collects)

------------------------------------------------------------------------------
(* Closures, and what every object has. *)

\* The activation is read again after the allocation, as are the numbers.
Closure_class_new(m, collects) ==
    IF \/ ClassOf(m, Stack(m, 3)) # "Activation"
       \/ ~IsSmi(Stack(m, 2)) \/ ~IsSmi(Stack(m, 1)) \/ ~IsSmi(Stack(m, 0))
    THEN Fail(m)
    ELSE IF Stack(m, 0)[2] < 0 THEN Fail(m)
    ELSE LET n == Allocate(m, Object("Closure", [i \in 1..Stack(m, 0)[2] |-> nil]), collects)
             defining_activation == Local(n, 3)
         IN ReturnNew([n EXCEPT !.objects[Len(n.objects)].fields =
                          <<ValueOf(n, defining_activation), Stack(n, 2), Stack(n, 1)>>], 4)
\* Only Serialization.ns calls it, with a count it has read.
Closure_class_withNumCopied(m, collects) ==
    IF ~IsSmi(Stack(m, 0)) THEN Fail(m)
    ELSE LET n == Allocate(m, Object("Closure", [i \in 1..Stack(m, 0)[2] |-> nil]), collects) IN
         ReturnNew([n EXCEPT !.objects[Len(n.objects)].fields = <<nil, Smi(0), Smi(-1)>>], 1)

IsClosure(m, v) == ClassOf(m, v) = "Closure"
\* Reading and writing the fields, from a mirror.
Closure_field(m, num_args, field) ==
    IF IsClosure(m, Stack(m, 0)) THEN Return(m, num_args, At(m, 0).fields[field]) ELSE Fail(m)
Closure_fieldPut(m, field, class) ==
    IF ~IsClosure(m, Stack(m, 1)) \/ ClassOf(m, Stack(m, 0)) # class THEN Fail(m)
    ELSE Return([m EXCEPT !.objects[Stack(m, 1)[2]].fields[field] = Stack(m, 0)], 2, Stack(m, 0))
Closure_definingActivation(m) == Closure_field(m, 1, 1)
Closure_definingActivationPut(m) == Closure_fieldPut(m, 1, "Activation")
Closure_initialBci(m) == Closure_field(m, 1, 2)
Closure_initialBciPut(m) == Closure_fieldPut(m, 2, "smi")
Closure_numArgs(m) == Closure_field(m, 0, 3)
Closure_numArgsPut(m) == Closure_fieldPut(m, 3, "smi")
Closure_numCopied(m) ==
    IF IsClosure(m, Stack(m, 0)) THEN Return(m, 1, Smi(Size(At(m, 0)))) ELSE Fail(m)
CopiedFails(m, i) ==
    \/ ~IsClosure(m, Stack(m, i + 1)) \/ ~IsSmi(Stack(m, i))
    \/ Stack(m, i)[2] <= 0 \/ Stack(m, i)[2] > Size(At(m, i + 1))
Closure_copiedAt(m) ==
    IF CopiedFails(m, 0) THEN Fail(m) ELSE Return(m, 2, At(m, 1).elements[Stack(m, 0)[2]])
Closure_copiedAtPut(m) ==
    IF CopiedFails(m, 1) THEN Fail(m)
    ELSE Return(SetElement(m, Local(m, 2), Stack(m, 1)[2] - 1, Stack(m, 0)), 3, Stack(m, 0))

\* value, value: and so on leave closure and arguments where the callee finds them;
\* valueWithArguments: puts the elements of an array there.
Closure_value(m, num_args) ==
    IF At(m, num_args).fields[3] # Smi(num_args) THEN Fail(m) ELSE [m EXCEPT !.activated = num_args]
Closure_valueArray(m) ==
    IF ClassOf(m, Stack(m, 0)) # "Array" THEN Fail(m)
    ELSE IF Smi(Size(At(m, 0))) # At(m, 1).fields[3] THEN Fail(m)
    ELSE [m EXCEPT !.stack = SubSeq(@, 1, Len(@) - 1) \o At(m, 0).elements,
                   !.activated = Size(At(m, 0))]

Object_identityHash(m, random) ==
    LET receiver == Stack(m, 0)
        NotZero(h) == IF h = 0 THEN 1 ELSE h
    IN IF IsSmi(receiver) THEN Return(m, 1, Smi(NotZero(receiver[2])))
       ELSE IF receiver[1] = "medium" THEN Return(m, 1, Smi(NotZero(ToSmi(receiver[2] % Word))))
       ELSE LET n == IF ClassOf(m, receiver) = "String" THEN EnsureHash(m, receiver)
                     ELSE IF HeaderHash(m, receiver) # 0 THEN m
                     ELSE [m EXCEPT !.objects[receiver[2]].hash = NotZero(ToSmi(random))]
            IN Return(n, 1, Smi(HeaderHash(n, receiver)))
Object_isCanonical(m) ==
    LET object == Stack(m, 0) IN
    Return(m, 1, Bool(IsSmi(object) \/ (object[1] = "object" /\ m.objects[object[2]].canonical)))
Object_markCanonical(m) ==
    LET object == Stack(m, 0) IN
    Return(IF object[1] = "object" THEN [m EXCEPT !.objects[object[2]].canonical = TRUE] ELSE m,
           1, object)

------------------------------------------------------------------------------
(* What the interpreter does of at:, at:put: and size by itself, when the receiver  *)
(* is what the compiler's bytecode predicts; everything else is an ordinary send,   *)
(* here of the primitive of the receiver's class.                                 *)

InRange(m, i) ==
    IsSmi(Stack(m, i)) /\ Stack(m, i)[2] - 1 >= 0 /\ Stack(m, i)[2] - 1 < Size(At(m, i + 1))

Hits_at(m) == (ClassOf(m, Stack(m, 1)) = "Array" \/ IsBytes(m, Stack(m, 1))) /\ InRange(m, 0)
Predicted_at(m) ==
    LET element == At(m, 1).elements[Stack(m, 0)[2]] IN
    PopNAndPush(m, 2, IF IsBytes(m, Stack(m, 1)) THEN Smi(element) ELSE element)

Hits_atPut(m) ==
    /\ \/ ClassOf(m, Stack(m, 2)) = "Array"
       \/ ClassOf(m, Stack(m, 2)) = "ByteArray" /\ IsByte(Stack(m, 0))
    /\ InRange(m, 1)
Predicted_atPut(m) ==
    LET value == Stack(m, 0)
        raw == IF ClassOf(m, Stack(m, 2)) = "ByteArray" THEN value[2] ELSE value
    IN PopNAndPush(SetElement(m, Local(m, 2), Stack(m, 1)[2] - 1, raw), 3, value)

Hits_size(m) == ClassOf(m, Stack(m, 0)) = "Array" \/ IsBytes(m, Stack(m, 0))
Predicted_size(m) == PopNAndPush(m, 1, Smi(Size(At(m, 0))))

------------------------------------------------------------------------------
(* Calls, with the arguments the library or a mirror may pass. *)

Call(name, primitive(_), args) ==
    /\ LET m == primitive(Machine(args)) IN
       /\ objects' = m.objects /\ half' = m.half
       /\ call' = [number |-> call.number + (IF name = "String_hash" THEN 0 ELSE 1), name |-> name, args |-> args, before |-> objects,
                   stack |-> m.stack, failed |-> m.failed, activated |-> m.activated]
    /\ UNCHANGED salt
CallAllocating(name, primitive(_, _), args) ==
    \E collects \in BOOLEAN : Call(name, LAMBDA m : primitive(m, collects), args)

Of(classes) == {Ref(id) : id \in {id \in DOMAIN objects : objects[id].class \in classes}}
Anyone == {Ref(id) : id \in DOMAIN objects}
Positions == {Smi(i) : i \in Indices} \cup {nil}
Numbers == {Integer(n) : n \in Integers64}
Values == {Ref(4), Ref(7), Smi(1), nil}
Bytes == {Smi(n) : n \in {-1, 0, kMaxByte, kMaxByte + 1}} \cup {nil}

Elementwise ==
    \/ \E n \in Positions :
        \/ CallAllocating("Array_class_new", Array_class_new, <<nil, n>>)
        \/ CallAllocating("WeakArray_class_new", WeakArray_class_new, <<nil, n>>)
        \/ CallAllocating("ByteArray_class_new", ByteArray_class_new, <<nil, n>>)
    \/ \E a \in Of({"Array"}), i \in Positions :
        \/ Call("Array_at", Array_at, <<a, i>>)
        \/ \E v \in Values : Call("Array_atPut", Array_atPut, <<a, i, v>>)
    \/ \E a \in Of({"WeakArray"}), i \in Positions :
        \/ Call("WeakArray_at", WeakArray_at, <<a, i>>)
        \/ \E v \in Values : Call("WeakArray_atPut", WeakArray_atPut, <<a, i, v>>)
    \/ \E a \in Of({"ByteArray"}), i \in Positions :
        \/ Call("ByteArray_at", ByteArray_at, <<a, i>>)
        \/ \E v \in Values \cup Bytes : Call("ByteArray_atPut", ByteArray_atPut, <<a, i, v>>)
    \/ \E s \in Of({"String"}), i \in Positions : Call("String_at", String_at, <<s, i>>)
    \/ \E o \in Anyone, i \in Positions :
        \/ Call("Object_instVarAt", Object_instVarAt, <<nil, o, i>>)
        \/ \E v \in Values : Call("Object_instVarAtPut", Object_instVarAtPut, <<nil, o, i, v>>)
    \/ \E a \in Of({"Array"}) : Call("Array_size", Array_size, <<a>>)
    \/ \E a \in Of({"WeakArray"}) : Call("WeakArray_size", WeakArray_size, <<a>>)
    \/ \E a \in Of({"ByteArray"}) : Call("ByteArray_size", ByteArray_size, <<a>>)
    \/ \E s \in Of({"String"}) : Call("String_size", String_size, <<s>>)

\* Through the predicting bytecode, when it hits.
Predicted ==
    \E a \in Anyone, i \in Positions :
        \/ /\ Hits_at(Machine(<<a, i>>))
           /\ Call(objects[a[2]].class \o "_at", Predicted_at, <<a, i>>)
        \/ \E v \in Values \cup Bytes :
             /\ Hits_atPut(Machine(<<a, i, v>>))
             /\ Call(objects[a[2]].class \o "_atPut", Predicted_atPut, <<a, i, v>>)
        \/ i = nil /\ Hits_size(Machine(<<a>>))
           /\ Call(objects[a[2]].class \o "_size", Predicted_size, <<a>>)

Copying ==
    \E start, stop \in Positions :
        \/ \E replacement \in Of({"Array", "ByteArray", "String"}), replacementStart \in Positions :
             \/ \E a \in Of({"Array"}) :
                  Call("Array_replace", Array_replaceFromToWithStartingAt,
                       <<a, start, stop, replacement, replacementStart>>)
             \/ \E b \in Of({"ByteArray"}) :
                  Call("ByteArray_replace", ByteArray_replaceFromToWithStartingAt,
                       <<b, start, stop, replacement, replacementStart>>)
        \/ \E a \in Of({"Array"}) : CallAllocating("Array_copy", Array_copyFromTo, <<a, start, stop>>)
        \/ \E b \in Of(ByteClasses) :
             \/ CallAllocating("copyByteArray", Bytes_copyByteArrayFromTo, <<b, start, stop>>)
             \/ CallAllocating("copyString", Bytes_copyStringFromTo, <<b, start, stop>>)

Reinterpreting ==
    \E b \in Of({"ByteArray"}), offset \in Positions, f \in DOMAIN IntegerFormats :
        \/ CallAllocating(f, LAMBDA m, collects : Bytes_integerAt(m, IntegerFormats[f], collects),
                          <<b, offset>>)
        \/ \E v \in Numbers \cup {nil} :
             Call(f, LAMBDA m : Bytes_integerAtPut(m, IntegerFormats[f]), <<b, offset, v>>)

Searching ==
    \E b \in Of(ByteClasses), part \in Anyone :
        \/ Call("startsWith", Bytes_startsWith, <<b, part>>)
        \/ Call("endsWith", Bytes_endsWith, <<b, part>>)
        \/ \E start \in Positions :
             \/ Call("indexOf", Bytes_indexOf, <<b, part, start>>)
             \/ Call("lastIndexOf", Bytes_lastIndexOf, <<b, part, start>>)

Strings ==
    \/ \E s \in Of({"String"}) :
        \/ Call("String_hash", String_hash, <<s>>)
        \/ \E o \in Anyone :
             \/ Call("String_equals", String_equals, <<s, o>>)
             \/ CallAllocating("String_concat", String_concat, <<s, o>>)
    \/ \E v \in Bytes : CallAllocating("String_with", String_class_with, <<nil, v>>)
    \/ \E o \in Anyone :
        \/ CallAllocating("String_withAll", String_class_withAll, <<nil, o>>)
        \/ CallAllocating("ByteArray_withAll", ByteArray_class_withAll, <<nil, o>>)

Closures ==
    \/ \E bci, numArgs \in {Smi(1), nil}, numCopied \in Positions, o \in Anyone :
         CallAllocating("Closure_new", Closure_class_new, <<nil, o, bci, numArgs, numCopied>>)
    \/ \E numCopied \in {n \in Positions : n[2] >= 0} :
         CallAllocating("Closure_withNumCopied", Closure_class_withNumCopied, <<nil, numCopied>>)
    \/ \E o \in Anyone, v \in Values :
        \/ Call("definingActivation", Closure_definingActivation, <<nil, o>>)
        \/ Call("definingActivationPut", Closure_definingActivationPut, <<nil, o, v>>)
        \/ Call("initialBci", Closure_initialBci, <<nil, o>>)
        \/ Call("initialBciPut", Closure_initialBciPut, <<nil, o, v>>)
        \/ Call("numCopied", Closure_numCopied, <<nil, o>>)
        \/ Call("numArgsPut", Closure_numArgsPut, <<nil, o, v>>)
        \/ \E i \in Positions :
             \/ Call("copiedAt", Closure_copiedAt, <<nil, o, i>>)
             \/ Call("copiedAtPut", Closure_copiedAtPut, <<nil, o, i, v>>)
    \/ \E c \in Of({"Closure"}) :
        \/ Call("numArgs", Closure_numArgs, <<c>>)
        \/ \E o \in Anyone : Call("valueArray", Closure_valueArray, <<c, o>>)
        \/ \E n \in 0..3 : Call("value", LAMBDA m : Closure_value(m, n), <<c>> \o [i \in 1..n |-> Smi(i)])

Identity ==
    \E v \in Anyone \cup Numbers :
        \/ v[1] # "large" /\ \E random \in Randoms :
             Call("identityHash", LAMBDA m : Object_identityHash(m, random), <<nil, v>>)
        \/ v \in Anyone /\ Call("isCanonical", Object_isCanonical, <<nil, v>>)
        \/ Call("markCanonical", Object_markCanonical, <<nil, v>>)

Next == call.number < MaxCalls /\
   (\/ Elementwise \/ Predicted \/ Copying \/ Reinterpreting \/ Searching
    \/ Strings \/ Closures \/ Identity)

NoCall == [number |-> 0, name |-> "none", args |-> <<>>, before |-> <<>>,
           stack |-> <<>>, failed |-> FALSE, activated |-> -1]

\* One object of every class, and two strings.
Init ==
    /\ \E w \in Worlds :
        objects = <<Object("Array", w.array), Object("WeakArray", <<Ref(1)>>),
                    Object("ByteArray", w.bytes), Object("String", w.string), Object("String", w.other),
                    Object("Slots", <<Ref(1), nil>>), Object("Activation", <<>>),
                    [Object("Closure", <<Smi(1)>>) EXCEPT
                        !.fields = <<Ref(7), Smi(0), Smi(Len(w.array))>>]>>
    /\ half = 0 /\ salt \in Salts /\ call = NoCall

Spec == Init /\ [][Next]_vars

------------------------------------------------------------------------------
(* Properties. *)

Given(i) == call.args[i]
Was(i) == call.before[Given(i)[2]]
ClassWas(i) == IF Given(i)[1] = "object" THEN Was(i).class ELSE Given(i)[1]
Number(i) == Given(i)[2]
AreSmis(positions) == \A i \in positions : IsSmi(Given(i))

Failed == [objects |-> call.before, stack |-> <<Below>> \o call.args, failed |-> TRUE]
Answers(v) == [objects |-> call.before, stack |-> <<Below, v>>, failed |-> FALSE]
Creates(object) == [objects |-> Append(call.before, object),
                    stack |-> <<Below, Ref(Len(call.before) + 1)>>, failed |-> FALSE]
\* The i-th argument gets other elements, and v is answered.
Changes(i, elements, v) ==
    [Answers(v) EXCEPT !.objects[Given(i)[2]].elements = elements]
Sets(i, fields, v) == [Answers(v) EXCEPT !.objects[Given(i)[2]].fields = fields]
Activates(stack) == [Answers(nil) EXCEPT !.stack = stack]
When(valid, outcome) == IF valid THEN outcome ELSE Failed

Part(elements, start, stop) == [i \in 1..(stop - start + 1) |-> elements[start + i - 1]]
Within(i, elements) == AreSmis({i}) /\ Number(i) \in 1..Len(elements)
Unboxed(class, v) == IF class = "ByteArray" THEN v[2] ELSE v
BoxedElement(class, element) == IF class \in ByteClasses THEN Smi(element) ELSE element

\* Where part occurs in bytes.
Occurrences(bytes, part) ==
    {i \in 1..(Len(bytes) + 1) : Len(part) <= Len(bytes) + 1 - i
                                  /\ Part(bytes, i, i + Len(part) - 1) = part}
Latest(S) == IF S = {} THEN 0 ELSE Max(S)
Earliest(S) == IF S = {} THEN 0 ELSE Min(S)

AtNames == {"Array_at", "WeakArray_at", "ByteArray_at", "String_at"}
AtPutNames == {"Array_atPut", "WeakArray_atPut", "ByteArray_atPut"}
SizeNames == {"Array_size", "WeakArray_size", "ByteArray_size", "String_size"}

Promised ==
    LET name == call.name IN
    CASE name \in AtNames ->
           When(Within(2, Was(1).elements),
                Answers(BoxedElement(ClassWas(1), Was(1).elements[Number(2)])))
      [] name \in AtPutNames ->
           When(Within(2, Was(1).elements) /\ (ClassWas(1) = "ByteArray" => IsByte(Given(3))),
                Changes(1, [Was(1).elements EXCEPT ![Number(2)] = Unboxed(ClassWas(1), Given(3))],
                        Given(3)))
      [] name \in SizeNames -> Answers(Smi(Len(Was(1).elements)))
      [] name \in {"Array_class_new", "WeakArray_class_new"} ->
           When(IsSmi(Given(2)) /\ Number(2) >= 0,
                Creates(Object(IF name = "Array_class_new" THEN "Array" ELSE "WeakArray",
                               [i \in 1..Number(2) |-> nil])))
      [] name = "ByteArray_class_new" ->
           When(IsSmi(Given(2)) /\ Number(2) >= 0, Creates(Object("ByteArray", [i \in 1..Number(2) |-> 0])))
      [] name = "Object_instVarAt" ->
           When(ClassWas(2) = "Slots" /\ Within(3, Was(2).elements), Answers(Was(2).elements[Number(3)]))
      [] name = "Object_instVarAtPut" ->
           When(ClassWas(2) = "Slots" /\ Within(3, Was(2).elements),
                Changes(2, [Was(2).elements EXCEPT ![Number(3)] = Given(4)], Given(4)))
      [] name \in {"Array_replace", "ByteArray_replace"} ->
           When(/\ AreSmis({2, 3, 5}) /\ Number(2) >= 1
                /\ ClassWas(4) \in (IF name = "Array_replace" THEN {"Array"} ELSE ByteClasses)
                /\ Number(3) >= Number(2) =>
                     /\ Number(3) <= Len(Was(1).elements) /\ Number(5) >= 1
                     /\ Number(5) + Number(3) - Number(2) <= Len(Was(4).elements),
                Changes(1, [i \in DOMAIN Was(1).elements |->
                              IF i \in Number(2)..Number(3) THEN Was(4).elements[Number(5) + i - Number(2)]
                              ELSE Was(1).elements[i]], Given(1)))
      [] name \in {"Array_copy", "copyByteArray", "copyString"} ->
           When(/\ AreSmis({2, 3}) /\ Number(2) >= 1
                /\ Number(3) \in (Number(2) - 1)..Len(Was(1).elements),
                Creates(Object([Array_copy |-> "Array", copyByteArray |-> "ByteArray",
                                copyString |-> "String"][name],
                               Part(Was(1).elements, Number(2), Number(3)))))
      [] name \in DOMAIN IntegerFormats ->
           LET f == IntegerFormats[name]
               Digit(v, i) == (v \div 2^(kBitsPerByte * i)) % 2^kBitsPerByte
               fits == AreSmis({2}) /\ Number(2) \in 0..(Len(Was(1).elements) - f.width)
           IN IF Len(call.args) = 2
              THEN When(fits, Answers(Integer(CHOOSE v \in MinOf(f)..MaxOf(f) : \A i \in 0..(f.width - 1) :
                                                Digit(v, i) = Was(1).elements[Number(2) + i + 1])))
              ELSE When(fits /\ Given(3) # nil /\ Number(3) \in MinOf(f)..MaxOf(f),
                        Changes(1, [i \in DOMAIN Was(1).elements |->
                                      IF i - Number(2) \in 1..f.width THEN Digit(Number(3), i - Number(2) - 1)
                                      ELSE Was(1).elements[i]], Given(3)))
      [] name = "String_concat" ->
           When(ClassWas(2) = "String", Creates(Object("String", Was(1).elements \o Was(2).elements)))
      [] name = "String_hash" -> Answers(Smi(objects[Given(1)[2]].hash))
      [] name = "String_equals" ->
           Answers(Bool(ClassWas(2) = "String" /\ Was(1).elements = Was(2).elements))
      [] name = "startsWith" ->
           When(ClassWas(2) \in ByteClasses, Answers(Bool(1 \in Occurrences(Was(1).elements, Was(2).elements))))
      [] name = "endsWith" ->
           When(ClassWas(2) \in ByteClasses,
                Answers(Bool(Len(Was(1).elements) - Len(Was(2).elements) + 1
                               \in Occurrences(Was(1).elements, Was(2).elements))))
      [] name \in {"indexOf", "lastIndexOf"} ->
           When(ClassWas(2) \in ByteClasses /\ AreSmis({3}) /\ Number(3) \in 1..(Len(Was(1).elements) + 1),
                LET all == Occurrences(Was(1).elements, Was(2).elements) IN
                Answers(Smi(IF name = "indexOf" THEN Earliest({i \in all : i >= Number(3)})
                            ELSE Latest({i \in all : i <= Number(3)}))))
      [] name = "String_with" -> When(IsByte(Given(2)), Creates(Object("String", <<Number(2)>>)))
      [] name \in {"String_withAll", "ByteArray_withAll"} ->
           When(\/ ClassWas(2) \in ByteClasses
                \/ ClassWas(2) = "Array" /\ \A i \in DOMAIN Was(2).elements : IsByte(Was(2).elements[i]),
                Creates(Object(IF name = "String_withAll" THEN "String" ELSE "ByteArray",
                               [i \in DOMAIN Was(2).elements |->
                                  IF ClassWas(2) = "Array" THEN Was(2).elements[i][2]
                                  ELSE Was(2).elements[i]])))
      [] name = "Closure_new" ->
           When(ClassWas(2) = "Activation" /\ AreSmis({3, 4, 5}) /\ Number(5) >= 0,
                Creates([Object("Closure", [i \in 1..Number(5) |-> nil]) EXCEPT
                           !.fields = <<Given(2), Given(3), Given(4)>>]))
      [] name = "Closure_withNumCopied" ->
           When(AreSmis({2}), Creates([Object("Closure", [i \in 1..Number(2) |-> nil]) EXCEPT
                                         !.fields = <<nil, Smi(0), Smi(-1)>>]))
      [] name \in {"definingActivation", "initialBci", "numCopied"} ->
           When(ClassWas(2) = "Closure",
                Answers([definingActivation |-> Was(2).fields[1], initialBci |-> Was(2).fields[2],
                         numCopied |-> Smi(Len(Was(2).elements))][name]))
      [] name \in {"definingActivationPut", "initialBciPut", "numArgsPut"} ->
           When(/\ ClassWas(2) = "Closure"
                /\ IF name = "definingActivationPut" THEN ClassWas(3) = "Activation" ELSE AreSmis({3}),
                Sets(2, [Was(2).fields EXCEPT ![[definingActivationPut |-> 1, initialBciPut |-> 2,
                                                 numArgsPut |-> 3][name]] = Given(3)], Given(3)))
      [] name = "numArgs" -> Answers(Was(1).fields[3])
      [] name = "copiedAt" ->
           When(ClassWas(2) = "Closure" /\ Within(3, Was(2).elements), Answers(Was(2).elements[Number(3)]))
      [] name = "copiedAtPut" ->
           When(ClassWas(2) = "Closure" /\ Within(3, Was(2).elements),
                Changes(2, [Was(2).elements EXCEPT ![Number(3)] = Given(4)], Given(4)))
      [] name = "value" ->
           When(Was(1).fields[3] = Smi(Len(call.args) - 1), Activates(<<Below>> \o call.args))
      [] name = "valueArray" ->
           When(ClassWas(2) = "Array" /\ Was(1).fields[3] = Smi(Len(Was(2).elements)),
                Activates(<<Below, Given(1)>> \o Was(2).elements))
      [] name = "identityHash" ->
           Answers(Smi(IF Given(2)[1] = "object" THEN objects[Given(2)[2]].hash
                       ELSE LET h == IF IsSmi(Given(2)) THEN Number(2) ELSE Number(2) % (kMaxSmi + 1)
                            IN IF h = 0 THEN 1 ELSE h))
      [] name = "isCanonical" -> Answers(Bool(Was(2).canonical))
      [] name = "markCanonical" ->
           IF Given(2)[1] = "object"
           THEN [Answers(Given(2)) EXCEPT !.objects[Given(2)[2]].canonical = TRUE]
           ELSE Answers(Given(2))

Unhashed(some) == [id \in DOMAIN some |-> [some[id] EXCEPT !.hash = 0]]

\* Every primitive does what its name promises, or fails and changes nothing,
\* also when its allocation moves everything, when it copies between overlapping
\* parts of one object, at every bound of every index; and a predicted at:, at:put:
\* or size does what the primitive of the receiver's class would have done
\* (primitives.cc:1298-2784, interpreter.cc:1317-1388).
ElementsExact ==
    call.name # "none" =>
        LET promised == Promised
        IN  /\ call.stack = promised.stack /\ call.failed = promised.failed
            /\ Unhashed(objects) = Unhashed(promised.objects)

\* "if x = y evaluates to true then x hash = y hash must evaluate to true"
\* (KernelForPrimordialSoup.ns:2143), and the other way strings are equal exactly
\* when their bytes are, whatever was computed, cached and copied before; a hash
\* is never 0, which stands for none (object.cc:241-258, primitives.cc:2474-2497).
StringsEqualByContents ==
    LET hashed(v) == Last(String_hash(Machine(<<v>>)).stack)[2] IN
    \A s \in Of({"String"}) :
        LET hash == hashed(s)
            same(t) == objects[s[2]].elements = objects[t[2]].elements
        IN /\ hash # 0 /\ objects[s[2]].hash \in {0, hash}
           /\ \A t \in Of({"String"}) :
                /\ Last(String_equals(Machine(<<s, t>>)).stack) = Bool(same(t))
                /\ t # s /\ same(t) => hashed(t) = hash
===============================================================================
