# TLA+ specification of dymsg

dymsg is a Go library for messages whose type is known only at run time: a
schema is parsed from JSON and registered under a type ID, messages are made
from it, read and written by paths such as `addr.city` or `items[2].name`, and
encoded as JSON or protobuf. This directory models the library in
`src/workspace-ref-impl`. Its description is `src/test_files/readme.md`, called
"the library's readme" below. Line numbers are those of the Go files.

## 1. Inventory

| Component | Code | State | Operations | Modules |
| --- | --- | --- | --- | --- |
| Type registry | `dymsg.go` 57-87 | the map `registry`, the `sync.RWMutex` `registryMu` | `Register`, `New` | `Registry`, `RegistryLock`, `RegistryProofs` |
| Message store | `message.go`, `slice.go` | of each message: `schema`, `vals`, `set` | `Set`, `Append`, `Clear`, `Get`, `Has`, `SetFields` | `Heap`, `Message`, `MessageView`, `MessageTrees`, `MCMessage`, `MessageProofs`, `CallProofs`; for lists `Lists`, `ListSpec`, `MCLists`, `ListsProofs` |
| Deep copy | `copy.go` | none | `deepCopy`, `copyFrom`, `deepCopyValue` | `Heap`, `MessageProofs`, `Lists` |
| Value | `value.go` | a snapshot of a slot that shares its slices and messages | getters | `MessageView`, `Message` (`messageAt`), `Lists` (`GetSlice`) |
| Argument conversion | `convert.go` | none | `convertScalar`, `convertMessage`, `convertToSlice` | `Rounding`, `Numbers`, `Convert`, `Inputs`, `InputProofs`, `Message`, `Lists` |
| Protobuf codec | `proto.go` | the position in the input, the message that is filled | `EncodeProto`, `DecodeProto` | `Decoded`, `Proto`, `ProtoWire`, `MCProto`, `ProtoProofs` |
| JSON codec | `json.go` | the message that is filled | `EncodeJSON`, `DecodeJSON` | `Decoded`, `Numbers`, `Json`, `JsonMeaning`, `JsonWire`, `MCJson`, `JsonProofs` |
| Schema parser | `dymsg.go` 90-194 | none | `ParseSchema` | `SchemaParser`, `Inputs`, `MCInputs`, `InputProofs` |
| Path parser | `path.go` | none | `parsePathBuf` | `Path`, `Inputs`, `MCInputs`, `InputProofs` |
| Tests, evaluation tools | `*_test.go`, `src/test_files/archcheck`, `src/eval` | | | not modelled: no part of the library |

How they interact:

- Goroutines call `Register` and `New` concurrently; `registryMu` is the only
  synchronisation of the library. A message may be used by one goroutine at a
  time, which the library's readme leaves to the program.
- `Set`, `Append` and `Clear` parse the path, walk from the receiver through
  nested messages (creating unset ones, except for `Clear`), convert the
  argument and store it. Messages are always stored as deep copies, so that the
  messages form trees; `Get(...).Message()` hands out a pointer into a tree, and
  `Get(...).Strings()` and the like the slice that the message stores.
- Everything takes for granted that the schema parser let only consistent schemas
  pass: names and numbers that are unique, a schema for each message field.
- The decoders clear a message and fill it through `newMessage`, `makeSlice` and
  `appendToSlice`, without the conversions of `Set`. The encoders walk the
  *schema* of a field and assume that what the slot holds fits.

What is hard, and what makes each component correct:

- Registry: look-up and insertion are two steps, a Go map must not be read
  while it is written, and every return path must unlock. Correct: the two
  operations are atomic, a registration is never replaced, calls return.
- Message store: four separately written walks must agree; a call can be given
  its receiver, or a part of it, as argument; a pointer handed out earlier
  outlives the field it came from; a call that fails has already created
  messages; later calls assume the shape of what earlier ones stored. Correct:
  what is stored fits the schema, messages stay trees, a call changes its target
  and nothing else, and a write is what the next read sees.
- Lists: a slice from a getter shares its array with the message; both sides may
  write to it and append to it, and the program may pass it to another message.
  Correct: lists behave as values, whatever is shared.
- JSON: the members of an object come in the order of a Go map; a member, or an
  element deep in a list, may be wrong after others have been stored. Correct: the
  order does not decide what is accepted or what an accepted text gives, a field
  that is set is whole, and what is sent is received.
- Parsers and conversions: bounds that are written separately for each width and
  kind, and several classes of wrong input that are told apart by the order of
  checks. Correct: accepted is exactly what the library's readme describes.
- Protobuf: a receiver may have an older schema or get only a part of the bytes;
  lengths, positions and widths meet their bounds; the contents of a field can
  reach over its end. Correct: what arrived as a whole is decoded, a cut is
  noticed, known and unknown fields end at the same byte, decoding ends.

`PROJECT.json` lists each hazard at its line with the properties about it.

## 2. Modules

### Registry, RegistryLock

`Registry` is the abstract specification: a call is invoked, takes effect in
one step (`Register`, `New`) and returns. `RegistryLock` follows the code:
`Register` is `LockMutex`, `Announce`, `AwaitReaders` (the three parts of
`RWMutex.Lock`), `Check` (lines 68-73), `Insert` (74-75), `Unlock` and
`UnlockMutex`; `New` is `RLock`, perhaps `RWake`, `Read` (81) and `RUnlock`. The
RWMutex is modelled after Go's: an inner mutex for writers, an announced writer
that keeps new readers out, and readers that announced writers wait for. A
schema is its type ID and a layout; `schemasEqual` compares them.

`RegistryLock` implements `Registry` (`Linearizable`): `Check`, `Insert` and
`Read` are the steps at which a call takes effect, `phase` is the refinement mapping.

### Heap, Message, MessageView, MessageTrees

`Heap` has the message objects, by reference (`Ref`): `schema`, `set` and
`vals`. A slot holds nil, a scalar, a list of scalars, a message or a list of
messages, some of which may be nil. `WithCopies` and `copyFrom` are the deep
copies; the objects they need are taken from the unused references. The
recursion of `deepCopy` is expressed by the tree below the copied message: every
message in it gets a new reference (`Placement`), and the copies refer to each
other as the originals do.

`Message` has the calls of a program, one at a time. `call` is the operation,
`segs` the rest of the path, `cur` the message the walk is at, `err` the
outcome; `pre` is the heap at the start of the call, for the properties only.
One step is one iteration of the loop in `descend`, `clearPath` or
`verifyClearPath` (`DescendElement`, `DescendMessage`, `DescendCreate`,
`ClearInElement`, `ClearInMessage`, `ClearInUnset`, `VerifyNext`), and one more
is the operation at the end of the walk with all it does (`setField`,
`setElement`, `setSelf`, `appendField`, `clearField`, `clearElement`,
`ClearSelf`), or its failure. `New` and `GetMessage` give the program its
messages. A panic is an outcome, after which the program goes on, as one that
recovers does.

`MessageView` has `getValue`, `Get` and `Has`, as operators on a heap, and the
properties that compare the outcome of a call with what a read saw before it. The
loop of `getValue` is the function `walked` of the number of segments that it has gone
through: a message, or nil below an unset field, and a schema. `MessageTrees` has the
whole tree below a message as a value and the properties that compare trees. A `Tree`
is built in levels (`Levels`), each of which puts the one below into its messages; one
level more than there are schemas reaches the leaves, because no schema nests itself
(`TreesAreWhole` proves it).

### Decoded, Proto, ProtoWire

`Proto` is the decoder. `DecodeProto` calls itself for a nested message: the
calls in progress are `stack`, whose frames have the bytes of the call, the
position in them, and the message; `num` and `end` are the field the frame is in
while a nested call or the loop over a packed field runs. One step is one
iteration of the loop of `DecodeProto` (`SkipField`, `DecodeScalar`,
`EnterMessage`, `EnterPacked` or `Fail`), one iteration of the packed loop
(`PackedElement`, `PackedFail`), or the end of a loop (`LeaveMessage`,
`LeavePacked`, `Finish`). The list of a repeated field is created before its
first element is decoded and kept when that fails, as in the code. A decoded
message is a function from the numbers of its set fields to their values;
`Decoded` has how both decoders change it.

The sizes of the encoding are parameters (`GroupSize`, `Groups`, `LastSize`,
`Size32`, `Fixed32`, `Fixed64`). What matters is kept at any size: the last group
is cut to what is left of the width and ends the varint whatever its
continuation bit, int32 is sign-extended when written and truncated when read,
int32 is narrower than a varint.

`ProtoWire` adds the encoder, a sender whose message arrives whole or cut at a receiver
with an older schema (`Receiver`), and a program that encodes what it decoded and
decodes it again (`Relay`). `pieces` is the loop over the fields: a piece is one field on
the wire, a single value, an element of a repeated field or a packed list, with the value
that the field of the message has once it has arrived; the encoding is all pieces,
`joined`. `encodings` gives all `parts` of a message their bytes in levels, up to
`Depth`, as `encodeProtoBytes` calls itself.

### Lists, ListSpec

`Lists` has one repeated field per message, and the variables of a program: each
holds a slice, an address of an array and a length; `mem` has the arrays, whose
lengths are the capacities. `SetField` makes a slice and copies into it
(`convertToSlice`), `SetElement` writes a cell (`setSliceElem`), `AppendField` is
Go's `append` (`appendToSlice`), `CopyFrom` drops the receiver's list and copies
the source's (`copyFrom`, `deepCopyValue`), `Decode` stores a new list. The
program gets the stored slice (`GetSlice`), makes one, writes to one and appends to
one. A new array may have any capacity that is needed or more. Calls that fail
return before they touch a list; they are in `Message`.

`ListSpec` is what a reader of the library's readme expects: lists are values, and
a call changes the list of its message. `Lists` implements it (`ListsAreValues`), with
`content`, the elements of the stored slices, as the refinement mapping. The
program's own writes are steps of `ListSpec` too: they may change one element of
one list.

### Rounding, Numbers, Json, JsonMeaning, JsonWire

`Rounding` rounds a number to a significand of so many bits, to the nearest: the floats
around a number are the multiples of a power of two, its `Scale`. `Numbers` has Go's
integers and floats with any widths, `Bits`, `Precision` and `MaxScale`. Numbers are
counted in halves, so that there are fractions to lose.

`Json` is the decoder, on the values that `encoding/json` makes of a text. The
nested calls of `decodeJSONObject` are `stack`; a frame has the members still to
come, any of which may be next, and the list that is being converted. One step
is one member (`SkipKey`, `UnsetField`, `DecodeScalar`, `ScalarFail`,
`EnterMessage`, `EnterList`, `KindFail`), one element (`NullElement`, `EnterElement`,
`ScalarElement`, `ElementFail`), or an end (`EndList`, `LeaveMessage`,
`Finish`). Before that the whole text is read (`ReadFail`, `NotAnObject`, `Start`).
A text is a sequence of the values of `JsonValue[Depth]`, where `Depth` is how deeply
`encoding/json` lets them nest (10000), and ends with `Bad` where its syntax is wrong.
`before`, what the message held when the call began, is for the properties only.

`JsonMeaning` says what a text means to a reader that does not order members:
`meaning[d]` gives each list of members that nests up to d deep, with the type it is
read as, the message or the failure; `Reading` is that at `Depth`.

`JsonWire` adds the encoder, a sender whose receiver has an older schema, and a
program that encodes what it decoded and decodes it again (`Relay`). The messages in a
message are its `parts`; `jsonTexts` gives all of them their texts in levels, each of which
puts the texts of the one below into its objects, as `appendJSONMessage` calls itself.

### Path, Convert, SchemaParser, Inputs

Three pure parts as operators, each next to a definition of its result that is
written another way. `Path`: `parsePathBuf` goes from character to character;
`PathMeans` splits the path at its dots. `Convert`: `convertScalar` follows the
switch of each target type and the checks of each bound; `ToInteger` and
`ToFloat` speak of numbers only. The text of a float is that of `strconv.FormatFloat` with
the precision -1: the fewest decimal digits that are read as the float at the width of the
format (`Shortest`), 32 bits for a `float32` and 64 for all others (`formatWidth`). The
reflection branches of the code, for values of named types, differ from the type switches in
three respects, so there are kinds of their own for named strings, named float32s and slices
whose elements have a named type. `SchemaParser`: `buildMessageSchema` goes from field
to field; `IsConfig` and `IsSound` say what a configuration and a schema are. It calls
itself for the schema of a field; both are functions of how deep the schemas nest, up to
`Depth`.

`Inputs` composes them: a job is one input to parse or to convert. A program may
take the text of a number that it set on a string field and set another field to it
(`ReadBack`), and address a declared field by its name (`Address`).

## 3. What the runs check

| Run | States | Question |
| --- | --- | --- |
| `registry` | 10,675 | Are `Register` and `New` atomic, free of map races and of starvation? |
| `message_fork` | 360,724 | Do schemas, single ownership and independence survive every sequence of calls with every aliasing of argument and receiver? |
| `message_chain` | 374,050 | On paths right and wrong at each of three levels, do the walks agree, and does a call change only its target? |
| `proto` | 240,137 | Does the decoder stay inside its input and in step with its fields on any bytes, does what it decoded survive another encoding, and does a receiver with an older schema get what arrived as a whole and notice a cut at any byte? |
| `proto_ends` | 5,799 | Does the decoder return on any bytes? |
| `json` | 170,199 | In any order of members, is what is accepted right, what is refused half done but never half a field, and what is sent received? |
| `lists` | 25,272 | Do lists behave as values, and keep what they handed out, whatever slices the program holds and passes? |
| `inputs` | 319,706 | Are exactly the right paths, arguments and configurations accepted, with the right result? |
| `self_set`, `repeated_slot`, `set_nil`, `packed_overrun` | | The findings of section 5. |

Every property of a passing run has a mutant in `PROJECT.json`: the definition
of the code with a plausible mistake, for which the run finds the property
violated. The definitions with an underscore in their names are those.

Registry. `NoMapRace`: nobody accesses the map beside a writer. `Linearizable`:
the code implements the atomic registry. `FirstWins`: a schema is never
replaced. `AnswersHold`: what a call reports is true when it returns.
`CallsReturn`: every call returns.

Message store. `SchemaSound`: what a slot holds fits the schema of its field.
`Ownership`: a message is in one slot at most. `Isolation`: a call leaves every
tree alone that has nothing to do with its receiver. `OnlyTargetChanges`: in the
receiver's own tree it changes the slot that the path names, or only the element, and
otherwise only what had to be created on the way. `WalksAgree`: writes and
`Clear` find a path wrong, with the same error, exactly when a read does.
`WritesAreRead`: after a success the next read gives the argument as it was
when the call began, which matters when it is a part of the receiver.
`PanicsExplained`: a call panics for one of two known reasons only.

Protobuf. `OnBoundary`: the decoder, at whatever depth, is always at a position
that a reader which skips every field reaches too. `RoundTrip`: the decoded
message is exactly the part of the sent one that arrived and that the receiver
knows, without nil elements and empty lists, which the wire does not carry, and
without anything the message held before. `CutIsFound`: the decoder answers
`ErrTruncated` for a cut inside a field and nothing else is an error.
`DecodeReturns`: it returns. For an input that was not sent, `RoundTrip` and
`CutIsFound` are about the second decoding, of bytes that come from a decoded message.

Lists. `ArraysOwned`: no two messages share an array. `ListsAreValues`: the lists are
those of `ListSpec`. `HandedOutKept`: a slice that a getter gave keeps its elements
through every call that does not set an element; the exception is what the program
itself appended to it behind the message's list.

JSON. `OrderIsFree`: whether a text is accepted, and the message it gives, is what
`JsonMeaning` says without any order. `WholeFields`: at every moment each field
that is set has its whole right value, and a text that cannot be read leaves the
message as it was. `RoundTrip`: the receiver has what was sent as far as it knows the
fields, with nil elements and empty lists, and with strings as `encoding/json` reads
them. `CanBeSentOn`: what was decoded can be encoded.

Inputs. `PathsParsed`, `NumbersConverted` and `ConfigsParsed`: accepted exactly when
right, with the right result or error. `TextsReadBack`: a number that went through a
string field is the same number. The exception is a float32: its text has the digits of 32
bits and is read at 64 (`convert.go` 277 and 211), and if that double is just in the middle
between two float32s, rounding it to 32 bits (line 490) may give the other one; the property
says that nothing else is lost. `FieldsAddressable`: the name of a declared field is a
path to it.

### Bounds

- `registry`: three goroutines (two that compete for a lock and one that waits
  for it, in every mixture of readers and writers), one type ID (IDs are
  independent of each other) and two layouts (equal or not). Calls are repeated
  without a bound.
- Messages: `Ref` is eight references, the most that the instances need for two
  trees and the copy that a call makes; an operation that needs more would be
  disabled. `MaxLen` bounds the lists (1; longer lists are those of `lists`), `ArgKinds`
  the kinds of argument, `Path` the paths. The number of calls has no bound. Two
  variables are enough for two trees, or for a tree and a pointer into it. In
  `message_chain` the constraint `LeavesInP` keeps one of them to messages that
  hold no others.
- The names of references mean nothing to a program: Go offers no order on
  pointers. So new ones are chosen with `CHOOSE`, and TLC looks at idle states
  through the view `View`, which has the trees, and how the variables alias each
  other and each other's parts. Between calls what is not reachable is collected
  at once (`Collect`, `Ready`), so that states with and without garbage are not
  told apart.
- Protobuf: a varint has two bytes, of five bits and of one, int64 has 6 bits and int32
  4. That gives continued and last groups, keys of one and of two bytes,
  negative int32 values, and values that do not fit. Inputs have
  up to five bytes: a packed or nested field with contents, or an unknown field
  with a two-byte key, and a byte behind it. `MCSent` combines all fields of a
  message with nested messages, lists and fields the receiver lacks at the
  beginning, in the middle and at the end, whole and cut at every byte; they nest
  once (`Depth` is 1).
- `lists`: two messages and one variable. The variable gets the slice of one
  message, keeps it while that message changes, and passes it to the other, so
  every sharing of two parties occurs. Arrays have up to three cells (`MaxCap`): a
  list that is shorter than its array by two has room for an append by each
  side. `Append` grows lists to three elements; those that are made or decoded
  have one at most. A step at the capacity's bound whose `append` would need a
  larger array is not taken. Addresses and unreachable cells mean nothing to the
  program and are left out by the view `View`.
- `json`: narrow integers have 3 bits, wide ones 5, floats significands of 2 and 4
  bits; all bounds are met from both sides. `MCObjects` combines, for each of five
  fields, nothing or one of the right and wrong values, in nested messages and lists
  too; a key that is unknown and one that comes twice are among them. They nest three
  deep; `Depth` is 4, which `NestingAssumption` needs for schemas that nest twice. `MCSent`
  combines the values of all fields of a newer schema.
- `inputs`: all paths of up to six characters of a letter, the digits 0 and 9, a
  minus sign and the three special characters: two elements with an index and a dot
  between, or an index of more digits than fit (`MaxIndex` is 90). Integers of 4
  and 6 bits, all of them, all floats with significands of 3 and 4 bits, and texts on
  both sides of each bound; as in Go, the largest wide integer is not a float and the
  largest float is beyond all integers. Floats are large enough for texts that are not
  exact, and close enough for one that is rounded twice: the float32 320 has the text
  `3e+02`, is read as 288 and stored as 256. Configurations of one or two types with up to
  two fields, right and wrong in each respect, nested twice (`Depth`); `MaxNum` is 4.
- Deadlock is checked in the runs of the registry, the messages and the lists, where
  the program may always call again. It is not in those of the decoders and of
  `inputs`, which end.

### Fairness

`registry` assumes weak fairness of each goroutine's steps, once called: Go's
scheduler runs what can run. It does not assume that anyone calls. It assumes
strong fairness of taking the inner mutex: `sync.Mutex` hands the lock to a
waiter that has starved. Nothing more is needed for readers, because a writer
that unlocks lets the waiting readers in before the next writer.
`proto_ends` assumes weak fairness of the decoder's steps: it runs alone. The
liveness property has a run of its own with fewer inputs, because TLC is slow at
the fairness condition.

## 4. What is proved

TLAPS proves these for all values of the constants that satisfy the assumptions
stated in the modules: those of `RegistryLock`; `HeapAssumption` (message fields have
a schema, and schemas nest finitely, as `ParseSchema` produces them) and
`MessageAssumption`; `ListsAssumption` and `RoomAssumption` (there is always another
array); `ProtoAssumption` (sizes that are not zero and divide each other, names and
numbers of fields that are unique), `NumbersAssumption` (wide is at least as wide as
narrow), `JsonAssumption` and those of `JsonWire`: what is sent is a message in all its
parts (`SentAssumption`), a nil element is none (`NilAssumption`), base64 is read as the
bytes it was made of, and valid UTF-8 as itself (`JsonWireAssumption`), a receiver lacks
fields but has no others (`ReceiverAssumption`), and schemas do not nest deeper than half of
what `encoding/json` reads (`NestingAssumption`: in the text of a schema they are deeper by
three values each, in that of a message by two at most); those of `ProtoWire`, which say
the same of messages and receivers, and that schemas nest finitely, that a varint has room
for every key (`WireAssumption`: `ParseSchema` allows numbers up to 65535), and that an
encoding is no longer than a varint can say, as no slice is; `ConvertAssumption` (the largest float64 is far above all
integers and all float32s), `PathAssumption` (the characters that
matter are no digits), `SchemaParserAssumption` and `InputsAssumption` (what comes
from outside is a path, an argument or a configuration); and the `BeforeAssumption` of each decoder: what a
message holds before it is decoded fits its schema. TLC evaluates each of them in a
run. `DataLemmas` has what several of the proofs need: lists that change at one place,
induction over numbers, as a fact about the set of the numbers that have the
property, and what rounding does.

`RegistryProofs`: `Invariance` is `Spec => []LockInv`. `NoMapRace` is not
inductive. `LockInv` adds who holds the inner mutex (`WriterAlone`), that
readers are out while a writer is in (`WriterAnnounced`, `ReadersKnown`), that a
call is on the way of its operation (`RequestFits`) and that what `Check` saw
still holds at `Insert` (`CheckHolds`). From it follow `TypeCorrect`,
`MutualExclusion`, `FirstRegistrationWins`, `AnswersStayTrue` and `Implements`,
the refinement of the atomic registry: the initial states map to initial
states, and every step to a step of `Registry` or to none.

`MessageProofs`: `StoreInvariance` is `Spec => []StoreInv`. `StoreInv` is
`TypeOK`, `Sound(heap)`, `Owned(heap)`, and what the walk needs: the program's
variables, the walk's message and the references in the argument are allocated
messages (`HeldExist`, `WalkExists`), `vschema` is a schema (`SchemaExists`). The
two parts need each other: a deep copy stays within the message's tree only when
slots refer to allocated messages, and stays a tree only when ownership
holds. From it follow `TypeCorrect`, `SchemaSoundness` and `SingleOwner`.
Its first part has the lemmas about the heap: filling one slot, copying a tree
and collecting garbage each keep `Sound` and `Owned`.

`ListsProofs`: `ListsInvariance` is `Spec => []ListsInv`, where `ListsInv` is
`TypeOK /\ ArraysOwned`. These are inductive together: a call that writes one cell
of an array keeps every other list because no other message has the array, and a
message gets an array that is new, or keeps its own. Each step has one of
three effects, which have a lemma each: a slice with a new array is stored or kept
(`IsNew`), one cell is written (`IsWritten`), or memory stays as it is. From it
follow `TypeCorrect`, `ArraysAreOwned`, `Refinement` (`Lists` implements
`ListSpec`: one step per call, with `Grown` and `WrittenHere` for what an append
or an assignment makes of the sequence) and `HandedOutIsKept`.

`CallProofs`, on top of `MessageProofs`: three invariants of a call on its way, all
comparing with `pre`, the heap it began in. `CallInvariance` is `Spec => []CallInv`.
`OnlyTargetChanges` and `Isolation` speak of the state after a call, and nothing in
them says what a walk has done so far. `CallInv` adds that the rest of the path is an
end of it (`PathLeft`), that slots differ only where the walk had to create a message
(`SlotsKept`), and that the walk stays in the tree of its receiver and in new messages,
which hold no message of another tree (`StaysInTree`, which needs that trees of which
none holds the root of the other are disjoint, from `Ownership`). From it follow
`TargetOnly` and `TreesIsolated`. `ReadInvariance` is `Spec => []ReadInv`, whose
`WalkIsRead` says that a call is where `getValue` would be after as many segments of
the same path in `pre`, or in a message that it made below an unset field, where
`getValue` has only a schema. With it every error of the four walks is the error of
the same iteration of `getValue`: `WalksAlike` and `PanicsKnown`.
`WriteInvariance` is `Spec => []WriteInv`, which adds `WritesAreRead` and
`WayIsWritten`: a walk is also where `getValue` would be in the heap as it is now, and
has changed no message but those that it has come by. All of these are of schemas that
nest the schema it is at, so that no tree which fits into its last field holds one of
them, whether or not the argument is a part of the receiver: what is copied is what was
there when the call began. A copy has the tree of its source, since the two are alike
and so are the messages in them (`SameTrees`, by induction over the levels); after the
store `Get` goes the same way (`ReadBack`) and finds it. From it follows `WritesSeen`.

`ProtoProofs`: `DecodeInvariance` is `DecodeSpec => []DecodeInv`. The invariant adds
to `TypeCorrect` that each call that has not returned is in a field of messages of the
type of the next one (`Calls`), that a packed loop is in a field that can be packed,
and that every frame is at a `Boundary` of its bytes, a position that a reader reaches
which only skips. A varint that `consumeVarint` accepts is within its width, by
induction over its groups; `skipField` and the decoding of a field end at the same
byte. From it follow `TypeCorrect` and `InStep`, for any bytes, schemas and sizes of
the encoding, Go's own among them.

`WireInvariance` is `WireSpec => []WireInv`. `RoundTrip` and `CutIsFound` are about the end
of a call; `WireInv` says of every call that has not returned where it is in what was
sent (`SentFrames`). There is a part of the sent message for each: its bytes are a beginning
of that part's encoding, and all of it in a nested call (`SentPart`); its position is
after a number of the part's pieces, and its message is what those carry (`AtPiece`), or
it is inside a packed list (`InPacked`); the part of a nested call is the message that
the piece of the caller's field holds (`InNested`). The lemmas go from the bytes up: a varint
is read as what was written, and is truncated if it is cut (`VarintWhole`, `VarintCut`, by
induction over its groups); so is the value of each type (`ScalarDecodes`) and each piece
(`PieceRead`), with the one exception of a packed list's own elements, which are not
cut because the length before them was checked; what a piece adds to the message that
carries those before it is what its value adds to what is received of it (`AddsIs`). For
`Relay`, `Kept` says that every message in progress is one that can be sent, which
needs the types and widths of `TypeCorrect`, and that the nesting of a decoded message is that
of its schema. `Outcome` is what a call leaves behind: it stopped at the last piece
that arrived, with `ErrTruncated` exactly if bytes were left. From it follow `WireDecodes`,
`MessagesArrive` (`RoundTrip`) and `CutsAreFound` (`CutIsFound`).

`JsonProofs`: `DecodeInvariance` is `DecodeSpec => []JsonInv`. `OrderIsFree` is about
the end of a call and `WholeFields` about the message of the first frame; to keep them,
`JsonInv` compares every open call with the meaning of its object: its fields hold what
the members that it has taken mean, the list in progress what the elements before mean,
and the next frame is for the value that this one waits for (`FrameOK`, `FieldOK`,
`ListOK`, `CallOK`). A member that is wrong in the last call thus makes the objects of
all calls wrong, by induction down the stack, and a call with nothing left to take has
the meaning of its object. That the recursive function `meaning` exists, and gives a
value the same meaning at any depth that it fits in, is proved by induction over
numbers. `TypeCorrect` needs that what `ParseFloat` gives is a float of the width:
rounding what was rounded changes nothing, although it can reach the next power of two,
where the scale is another. From it follow `TypeCorrect`, `OrderFree` and `FieldsWhole`.

`WireInvariance` is `WireSpec => []WireInv`, where `WireInv` adds `SentInv`: what is decoded
is the text of the message that was sent, all of whose parts are messages, and the receiver
has a type for it. The rest is about what a text means. The object that the encoder makes
of a part has, for each field, the text of its value (`MembersAre`), and the receiver's
meaning of that text is what `Received` says, if it is for the messages in it (`PartsText`,
by induction over how deep the schema nests others). What was decoded has only messages
that were decoded too (`ReadMessages`), so that all their floats are finite and the text
exists. From it follow `WireDecodes`, `MessagesArrive` (`RoundTrip`) and `MessagesGoOn`
(`CanBeSentOn`).

`InputProofs`: `InputsAreKept` is `Spec => []InputInv`: a job is an input from outside
or what the program made of an earlier result, and the result is that of its job. The
rest is about the three operators. `NumbersConverted` goes through each pair of a kind of
argument and a type of field; for floats it needs that rounding is monotonic and
idempotent, and that rounding to few bits leaves what was rounded to fewer.
`TextsReadBack` needs that the shortest text exists and is read as its number at the width
of the format (`FormatIs`). A double, and a named float32, which has the text of a double,
is thus read back. The text of a float32 is rounded to 64 bits and then to 32. The one
is monotonic and leaves alone what separates the float32s, the points in the middle
between two of them, which have one bit more; so a number on one side of such a point stays on
its side or becomes the point (`RoundedOnTheWay` of `DataLemmas`), and only then may the
second rounding give another float32 than one rounding alone. `ConfigsParsed` is by induction over the depth of the schemas, with
an invariant of each of the two loops: the names and numbers that were seen are those of
the fields so far, which are all right, or the loop has failed at the first wrong one.
`FieldsAddressable` follows the parser through a name, in which nothing ends a segment.
`PathsParsed` compares the two ends at once, by induction from the last part of a path to
the first: an iteration of the parser takes exactly the part behind its position, or finds
there what `WrongIndex` finds in the whole path. That the parts, which are counted, follow
each other from dot to dot is a fact about finite sets of numbers.

Only model-checked: `CallsReturn` and `DecodeReturns`, because the prover has no fairness.

## 5. Findings

1. `self_set` (`copy.go` 21): `m.Set("", m)` empties the message. `copyFrom`
   replaces the receiver's arrays before it reads the source's, which are the same.
2. `repeated_slot` (`message.go` 413): `Set("items.name", v)` on a repeated
   message field replaces its list by a single message. A later `Append` and the
   encoders panic.
3. `set_nil` (`message.go` 94): `Set(path, nil)` creates the unset messages on
   the path, `Clear(path)` does not; the readme calls them equivalent.
4. `packed_overrun` (`proto.go` 261): the last element of a packed field may
   extend over the end of the field. The bytes behind it are then decoded
   twice: as a part of that element and as the next field.

Seen on the way, without a run:

- A nil `*Message` inside a `[]any` makes `Set` panic (`convert.go` 388): a nil element
  is looked for in the interface only. `PanicsExplained` allows this panic and the one
  that follows the second finding; no property forbids either, but `RepeatedHoldsSlices`
  is about the cause of the latter.
- A string of a named type is refused by a bytes field (`convert.go` 318), although the
  readme allows the conversion, and types with the same underlying type (322, 323): the
  reflection branch of `convertBytes` has no case for it, that of `convertString` has.
- `Clear("items[0]")` makes the element nil, and `Has` still answers true, since
  the element exists.
- A message from `New` has a type ID and the schema of a nested field has 0, so
  that `schemasEqual` never lets the one be stored as the other: only messages
  from `Get` or a decoder fit a nested field. In the models a schema of `Top` is
  therefore never the schema of a field.
- A repeated scalar field that is set to an empty list is not encoded by
  protobuf (`proto.go` 131) and arrives unset, while JSON carries it; nil elements
  likewise. `RoundTrip` of each codec says so.
- After `s := m.Get("tags").Strings()` and `m.Append("tags", "x")` within the
  capacity, `append(s, "y")` by the program overwrites the message's new element:
  the step `Touch` of `ListSpec` allows it.
- A `[]B` whose element type `B` is a named byte makes `convertBytes` panic in
  `reflect.Copy` (`convert.go` 315), while `convertString` takes it.
- A text for a float field is rounded twice, to 64 bits and then to 32
  (`convert.go` 36 and 490). So a number just above the largest float32 may be refused,
  which `ToFloat` allows, and a float32 whose text is set on a float field may become
  its neighbour, which `TextsReadBack` allows: `float32(7.038531e-26)` is one.
- A named float32 is formatted with 64 bits (`convert.go` 293) and has more digits than a
  `float32` of the same value (line 277); it is read back exactly.
- Bytes of a string that are not UTF-8 are replaced on the way through JSON.
- `"schema": null` on a field that is no message is refused (`dymsg.go` 177).
- A failed `Set` or `Append` leaves the messages it created on the way, and a failed
  decoding what was decoded so far.

## 6. Not modelled, and plan

Not modelled: `SetFields` (it reads the `set` array), the typed scalar getters of
`Value` (a type check and a read), wording of errors, the characters of the texts of numbers
and of JSON (done by `strconv` and `encoding/json`), escapes in strings, lengths of 2^63 and
more, which the decoder compares as `uint64` before it converts them to `int` (`proto.go`
190 and its copies): in the model a length is a number without a width of its own. In `Message`
scalars are opaque values, with the conversion as a parameter, and lists are values;
`Convert` and `Lists` have what is left out there. `Lists` has scalars or
pointers as elements: the byte slices of a `[][]byte` are not told apart from their
contents.

What could be added: `MessageSpec`, messages as trees without references with one
atomic action per call, and `Message` shown to implement it where the findings do not
forbid it.
