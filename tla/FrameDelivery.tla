---------------------------- MODULE FrameDelivery ----------------------------
(***************************************************************************)
(* The way of a frame out of an SDK buffer: copyFrame and its helpers in   *)
(* src/C++/HeliotisC4System.cpp deep-copy the parts of a buffer while it   *)
(* is alive, and FrameAdapter converts the copy.  The SDK answers every    *)
(* query on its own: a size may be odd, zero, or change between the probe  *)
(* and the copy, and any query but the part count may fail.                *)
(*                                                                         *)
(* Each helper is an operator of the SDK's answers; the sets of what it    *)
(* can return are constants, so that a step picks a result.                *)
(***************************************************************************)
EXTENDS FrameAdapter, Integers

CONSTANTS MaxParts,           \* bound: data parts of a buffer
          PartKinds,          \* kinds ChunkPartType can name
          DimensionVectors,   \* dimensions a part can have
          DimensionBytes,     \* byte counts C4Buf_getPartDimension answers
          DataBytes,          \* byte counts the typed data getters answer
          ForeignParts        \* parts of frames that callers build themselves

ASSUME PartsAssumption == MaxParts \in Nat /\ PartKinds \subseteq Kinds
ASSUME BytesAssumption == DimensionBytes \subseteq 0..Word /\ DataBytes \subseteq 0..Word

(* A dimension is an int64; a caller's part has the members of a FramePart. *)
ASSUME DimensionsAssumption == \A v \in DimensionVectors : v \in Seq(Int)
ASSUME ForeignAssumption ==
  \A p \in ForeignParts :
    /\ p.kind \in Kinds /\ p.storage \in Storages
    /\ {p.width, p.height} \subseteq 0..Word /\ p.samples \in Nat

VARIABLES step,     \* of copyFrame and of the conversion
          left,     \* parts of the buffer not read yet
          part,     \* locals of the part being read
          frame,    \* the frame being copied, then the delivered one
          copied,   \* result of copyFrame
          request, graphics

vars == <<step, left, part, frame, copied, request, graphics>>

SampleSize == [Uint16 |-> 2, Float64 |-> 8]
DimensionSize == 8

Codes == {"ok", "small", "error"}
Answers(bytes) == [code : Codes, bytes : bytes]

CeilDiv(n, d) == (n + d - 1) \div d

------------------------------------------------------------------------------
(* readBufferPartDimensions: two slots first, then as many as the SDK asked   *)
(* for, rounded up; slots the SDK did not fill are zero.                      *)

WithoutTrailingZeros(dimensions) ==
  LET filled == {i \in DOMAIN dimensions : dimensions[i] > 0}
      last   == IF filled = {} THEN 1 ELSE CHOOSE i \in filled : \A j \in filled : j <= i
  IN SubSeq(dimensions, 1, last)

ReadDimensions(vector, first, second) ==
  LET retry == first.code = "small" /\ first.bytes # 0
      slots == IF retry THEN CeilDiv(first.bytes, DimensionSize) ELSE 2
      last  == IF retry THEN second ELSE first
      count == CeilDiv(last.bytes, DimensionSize)
  IN IF \/ retry /\ slots * DimensionSize > Word
        \/ last.code # "ok" \/ last.bytes = 0 \/ count > slots
       THEN <<>>
       ELSE WithoutTrailingZeros(
              [i \in 1..count |-> IF i \in DOMAIN vector THEN vector[i] ELSE 0])

DimensionsRead ==
  {ReadDimensions(v, first, second) :
     v \in DimensionVectors, first \in Answers(DimensionBytes), second \in Answers(DimensionBytes)}

(* Mutant: the product is not held against the range of a uint32. *)
UncheckedProduct(dimensions) ==
  LET p[i \in 0..Len(dimensions)] == IF i = 0 THEN 1 ELSE p[i - 1] * dimensions[i]
  IN IF dimensions = <<>> THEN 0 ELSE p[Len(dimensions)]

(* The product of positive dimensions that a uint32 holds, 0 if there is none. *)
Product(dimensions) ==
  LET p[i \in 0..Len(dimensions)] ==
        IF i = 0 THEN 1
        ELSE IF \/ p[i - 1] = 0 \/ dimensions[i] \notin 1..Word
                \/ p[i - 1] > Word \div dimensions[i]
          THEN 0 ELSE p[i - 1] * dimensions[i]
  IN IF dimensions = <<>> THEN 0 ELSE p[Len(dimensions)]

(* queryBufferPartSampleCount: 0 if the probe gives no whole number of samples. *)
SampleCount(storage, answer) ==
  IF answer.code = "error" \/ answer.bytes % SampleSize[storage] # 0 THEN 0
  ELSE answer.bytes \div SampleSize[storage]

Probes == [s \in Storages |-> {SampleCount(s, a) : a \in Answers(DataBytes)}]

------------------------------------------------------------------------------
(* copyBufferPartSamples: one read into the expected capacity, and one into   *)
(* the capacity the SDK asked for.                                            *)

NotCopied == [samples |-> 0, exact |-> TRUE]

(* A successful read must report whole samples that fit the room it was given. *)
Acceptable(storage, room, bytes) ==
  bytes # 0 /\ bytes <= room /\ bytes % SampleSize[storage] = 0

(* Mutant: bytes are taken for samples. *)
BytesAsSamples(storage, bytes) == bytes

SamplesOf(storage, bytes) == bytes \div SampleSize[storage]

(* "exact" is history: what is kept is what the SDK wrote, inside the allocation. *)
Received(storage, capacity, answer) ==
  LET room == CeilDiv(capacity, SampleSize[storage]) * SampleSize[storage]
      kept == SamplesOf(storage, answer.bytes)
  IN IF answer.code = "ok" /\ Acceptable(storage, room, answer.bytes)
       THEN [samples |-> kept,
             exact   |-> kept * SampleSize[storage] = answer.bytes /\ answer.bytes <= room]
       ELSE NotCopied

CopySamples(storage, expected, first, second) ==
  IF expected = 0 \/ expected > Word \div SampleSize[storage] THEN NotCopied
  ELSE IF first.code = "small" /\ first.bytes # 0
    THEN Received(storage, first.bytes, second)
    ELSE Received(storage, expected * SampleSize[storage], first)

Copies ==
  [s \in Storages |-> [expected \in 0..Word |->
     {CopySamples(s, expected, first, second) :
        first \in Answers(DataBytes), second \in Answers(DataBytes)}]]

------------------------------------------------------------------------------
(* readScan3dGeometry: the optional geometry chunks of the buffer. *)

Chunks == [unit : {"length", "other"}, mode : {"rectifiedC", "calibratedC", "other"},
           strings : BOOLEAN,      \* both strings are readable
           axisC : BOOLEAN,        \* the scale and offset of the axis are readable and finite
           axisAB : BOOLEAN]

ReadScan3dGeometry(c) ==
  IF \/ ~c.strings \/ ~c.axisC \/ c.mode = "other"
     \/ c.mode = "rectifiedC" /\ ~c.axisAB
    THEN "absent"
  ELSE IF c.unit = "other" THEN "unusable" ELSE c.mode

GeometriesRead == {ReadScan3dGeometry(c) : c \in Chunks}

(* The pixel format of a part: its sample storage, if the name tells it, and *)
(* the depth, which is used of integer samples only.                         *)
Formats ==
  [storage : {"Uint16"}, bits : {0, 8, 16}] \cup [storage : {"Float64", "unreliable"}, bits : {0}]

NoPart == [kind |-> "Unknown"]
NoRequest == [range |-> FALSE, image |-> FALSE, auxiliary |-> FALSE]
NoFrame == [geometry |-> "absent", parts |-> <<>>]

------------------------------------------------------------------------------

Init ==
  /\ step = "buffer" /\ left = 0
  /\ part = NoPart /\ frame = NoFrame
  /\ copied = "none" /\ graphics = NoGraphicsFrame
  /\ request = NoRequest

ReceiveBuffer ==
  /\ step = "buffer"
  /\ \E parts \in 0..MaxParts, geometry \in GeometriesRead :
       /\ left' = parts
       /\ frame' = [NoFrame EXCEPT !.geometry = geometry]
       /\ IF parts = 0 THEN copied' = "failed" /\ step' = "done"
          ELSE step' = "part" /\ UNCHANGED copied
  /\ UNCHANGED <<part, request, graphics>>

SelectorFails ==
  /\ step = "part" /\ left > 0
  /\ copied' = "selector failed" /\ step' = "done"
  /\ UNCHANGED <<left, part, frame, request, graphics>>

(* ChunkPartType and the pixel format are hints: either may be missing. *)
DescribePart ==
  /\ step = "part" /\ left > 0
  /\ left' = left - 1
  /\ \E kind \in PartKinds, format \in Formats :
       part' = [kind |-> kind, storage |-> format.storage, bits |-> format.bits]
  /\ step' = "measure"
  /\ UNCHANGED <<frame, copied, request, graphics>>

SkipPart == step' = "part" /\ part' = NoPart

(* With an unreliable format, exactly one of the typed getters must accept a probe. *)
ProbedStorages(probes) ==
  LET accepted == {s \in Storages : probes[s] # 0}
  IN IF Cardinality(accepted) = 1 THEN accepted ELSE {}

(* The getters that are probed: both, that of the storage, or none. *)
Probed(product) ==
  IF part.storage = "unreliable" THEN Storages
  ELSE IF product = 0 THEN {part.storage} ELSE {}

ProbeResults(product) ==
  {probes \in [Storages -> Probes["Uint16"] \cup Probes["Float64"]] :
     \A s \in Storages : probes[s] \in IF s \in Probed(product) THEN Probes[s] ELSE {0}}

(* Usable dimensions give the sample count; else the size probe does, in one row. *)
MeasurePart ==
  /\ step = "measure"
  /\ \E dimensions \in DimensionsRead : LET product == Product(dimensions) IN
       \E probes \in ProbeResults(product) :
         LET storages == IF part.storage = "unreliable" THEN ProbedStorages(probes)
                         ELSE {part.storage}
             counted  == {s \in storages : product # 0 \/ probes[s] # 0}
         IN \/ counted = {} /\ SkipPart
            \/ \E s \in counted :
                 /\ part' = [kind |-> part.kind, bits |-> part.bits, storage |-> s,
                             expected |-> IF product # 0 THEN product ELSE probes[s],
                             row      |-> IF product # 0 THEN dimensions[1] ELSE probes[s],
                             probed   |-> product = 0]
                 /\ step' = "copy"
  /\ UNCHANGED <<left, frame, copied, request, graphics>>

(* Mutant: a non-finite scale does not reclassify the part. *)
KindAsNamed(kind, scale) == kind

(* A Range part without a finite fixed-point scale is a raw preview. *)
KindWithScale(kind, scale) ==
  IF kind = "Range" /\ scale = "not finite" THEN "Unknown" ELSE kind

(* Mutant: the metadata shape is kept whatever was copied. *)
MetadataShape(samples) == <<part.row, part.expected \div part.row>>

(* The metadata shape if the copy has that many samples, else one row. *)
Shape(samples) ==
  IF samples = part.expected THEN <<part.row, part.expected \div part.row>> ELSE <<samples, 1>>

(* A part whose samples could not be copied is skipped; the others are kept.  *)
(* "reshaped" and "scale" are history.                                        *)
CopyPart ==
  /\ step = "copy"
  /\ \E scale \in IF part.storage = "Uint16" THEN {"absent", "finite", "not finite"} ELSE {"absent"},
        copy \in Copies[part.storage][part.expected] :
       IF copy.samples = 0 THEN SkipPart /\ UNCHANGED frame
       ELSE /\ frame' = [frame EXCEPT !.parts = Append(@,
                 [kind        |-> KindWithScale(part.kind, scale),
                  storage     |-> part.storage,
                  bits        |-> part.bits,
                  width       |-> Shape(copy.samples)[1],
                  height      |-> Shape(copy.samples)[2],
                  samples     |-> copy.samples,
                  finiteScale |-> TRUE,
                  exact       |-> copy.exact,
                  reshaped    |-> part.probed \/ copy.samples # part.expected,
                  calibrated  |-> part.kind = "Range" /\ scale # "not finite"])]
            /\ SkipPart
  /\ UNCHANGED <<left, copied, request, graphics>>

FinishCopy ==
  /\ step = "part" /\ left = 0
  /\ IF FrameValid(frame)
       THEN copied' = "ok" /\ step' = "convert"
       ELSE copied' = "failed" /\ step' = "done"
  /\ UNCHANGED <<left, part, frame, request, graphics>>

(* A frame that a caller of the adapter built itself. *)
ForeignFrame ==
  /\ step = "buffer"
  /\ \E geometry \in Geometries,
        parts \in UNION {[1..n -> ForeignParts] : n \in 0..MaxParts} :
       frame' = [geometry |-> geometry, parts |-> parts]
  /\ step' = "convert"
  /\ UNCHANGED <<left, part, copied, request, graphics>>

Convert ==
  /\ step = "convert"
  /\ request' \in Requests
  /\ graphics' = ConvertGraphicsFrame(frame, request')
  /\ step' = "done"
  /\ UNCHANGED <<left, part, frame, copied>>

Next ==
  \/ ReceiveBuffer \/ SelectorFails \/ DescribePart \/ MeasurePart \/ CopyPart
  \/ FinishCopy \/ ForeignFrame \/ Convert

Spec == Init /\ [][Next]_vars

------------------------------------------------------------------------------

TypeOK ==
  /\ step \in {"buffer", "part", "measure", "copy", "convert", "done"}
  /\ left \in 0..MaxParts
  /\ frame.geometry \in Geometries /\ Len(frame.parts) <= MaxParts
  /\ \A i \in DOMAIN frame.parts :
       /\ frame.parts[i].kind \in Kinds /\ frame.parts[i].storage \in Storages
       /\ {frame.parts[i].width, frame.parts[i].height} \subseteq 0..Word
       /\ frame.parts[i].samples \in Nat
  /\ step = "copy" => part.expected \in 1..Word /\ part.row \in 1..Word
  /\ copied \in {"none", "ok", "failed", "selector failed"}
  /\ request \in Requests

(* The frame was copied from a buffer, not built by a caller. *)
FromBuffer == copied # "none" \/ step \notin {"convert", "done"}

(***************************************************************************)
(* The samples of a copied part are exactly what the last getter call      *)
(* wrote, within the memory it was given, whatever sizes the SDK reported  *)
(* before and after: no part ends in a partial or an unwritten sample.     *)
(***************************************************************************)
SamplesAreReceived ==
  FromBuffer => \A i \in DOMAIN frame.parts : frame.parts[i].exact

(***************************************************************************)
(* A frame with at least one safely copied part is delivered: neither a    *)
(* failed copy nor a part whose copied size contradicts its metadata       *)
(* discards the others (docs/ARCHITECTURE.md:81).                          *)
(***************************************************************************)
NoPartDiscardsOthers ==
  copied = "failed" => frame.parts = <<>>

(***************************************************************************)
(* Every copied part is displayable by the adapter: the 32-bit byte        *)
(* capacity of the SDK bounds its samples below the int the host uses for  *)
(* widths, heights and counts, so no cast loses a value.                   *)
(***************************************************************************)
CopiedPartsAreRepresentable ==
  copied = "ok" =>
    \A i \in DOMAIN frame.parts :
      RepresentableSamples(frame.parts[i]) /\ RepresentableDimensions(frame.parts[i])

(***************************************************************************)
(* What is delivered of a buffer is what the SDK wrote of it, in sizes the *)
(* host can represent, whatever sizes the SDK reported before and after.   *)
(***************************************************************************)
CopyIsSound == SamplesAreReceived /\ CopiedPartsAreRepresentable

(***************************************************************************)
(* The label "Calibrated" goes only to samples of a part the device typed  *)
(* as Range and gave a finite fixed-point scale, under Scan3d geometry the *)
(* adapter can interpret.  It says nothing of the shape: a typed part that *)
(* was reshaped into one row keeps the label (ReshapedRangeIsPreview).     *)
(***************************************************************************)
CalibratedRangeIsTyped ==
  graphics.range # NoRange /\ graphics.range.domain = "Calibrated" =>
    /\ frame.parts[graphics.range.index].kind = "Range"
    /\ FromBuffer => frame.parts[graphics.range.index].calibrated
    /\ frame.geometry # "unusable"

(***************************************************************************)
(* A range is presented as a uniform physical grid exactly when it has the *)
(* pitch of a usable RectifiedC geometry; without it, it is a grid of      *)
(* pixels, which a height map can be derived from.                         *)
(***************************************************************************)
PhysicalGridHasPitch ==
  graphics.range # NoRange =>
    /\ graphics.range.grid = "UniformPhysical" <=> graphics.range.pitch
    /\ graphics.range.pitch => frame.geometry = "rectifiedC"

(***************************************************************************)
(* The auxiliary channels of the range of a copied frame have one sample   *)
(* per range value, although they come from other parts of the buffer.     *)
(***************************************************************************)
ChannelsMatchRange ==
  FromBuffer /\ graphics.range # NoRange =>
    {graphics.range.intensity, graphics.range.confidence} \subseteq {0, graphics.range.values}

(***************************************************************************)
(* The copy into an image stays in its storage, and its row length is an   *)
(* int, for every part a caller may pass.                                  *)
(***************************************************************************)
ImagesFit ==
  \A image \in graphics.images :
    /\ image.bytes = image.size
    /\ image.stride <= IntMax /\ image.stride * image.height = image.size

(***************************************************************************)
(* Nothing of a graphics frame contradicts its own size.                   *)
(***************************************************************************)
ConvertedDataFit == ChannelsMatchRange /\ ImagesFit

(***************************************************************************)
(* The calibration and the grid a range is labelled with were declared by  *)
(* the device, in the type and the scale of the part and in the geometry   *)
(* of the frame.                                                           *)
(***************************************************************************)
CalibrationIsDeclared == CalibratedRangeIsTyped /\ PhysicalGridHasPitch

(***************************************************************************)
(* A part that cannot be displayed hides no displayable one: a range is    *)
(* converted whenever it is requested and some part is displayable         *)
(* (Tests/GraphicsFrameAdapterTest.cpp:271).                               *)
(***************************************************************************)
NoPartHidesOthers ==
  step = "done" /\ copied \in {"none", "ok"} /\ request.range
    /\ (\E i \in DOMAIN frame.parts : RepresentableSamples(frame.parts[i])) =>
      graphics.range # NoRange

(***************************************************************************)
(* Violated: a copy that contradicts the metadata geometry is presented    *)
(* "as a one-row raw preview" (the log line at HeliotisC4System.cpp:2945,  *)
(* docs/ARCHITECTURE.md:83), so it is never labelled calibrated.           *)
(***************************************************************************)
ReshapedRangeIsPreview ==
  FromBuffer /\ graphics.range # NoRange
    /\ frame.parts[graphics.range.index].reshaped =>
      graphics.range.domain = "Native"
=============================================================================
