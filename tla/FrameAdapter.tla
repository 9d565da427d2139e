----------------------------- MODULE FrameAdapter -----------------------------
(***************************************************************************)
(* The conversion of an owned frame into the graphics frame of the host:   *)
(* src/C++/Utility/PlaygroundAdapter/HeliotisC4GraphicsFrameAdapter.cpp,   *)
(* and the part and frame structures of src/C++/HeliotisC4.h.  Sample      *)
(* values are left out: a part is its geometry, storage and sample count.  *)
(* What the host types accept (RangeFrame::isValid, GraphicsImage::isValid)*)
(* is external.                                                            *)
(***************************************************************************)
EXTENDS Naturals, Sequences, FiniteSets

CONSTANT Word   \* the largest std::uint32_t; an int holds up to half of it

ASSUME WordAssumption == Word \in Nat \ {0}

IntMax == Word \div 2

Kinds == {"Unknown", "Range", "Intensity", "Confidence"}
Storages == {"Uint16", "Float64"}

(* Scan3dGeometry as the adapter tells it apart: "unusable" has an unsupported unit. *)
Geometries == {"absent", "unusable", "calibratedC", "rectifiedC"}

NoRange == [index |-> 0]

------------------------------------------------------------------------------
(* FramePart::isValid and Frame::isValid *)

PartValid(p) ==
  p.width # 0 /\ p.height # 0 /\ p.finiteScale /\ p.samples = p.width * p.height

FrameValid(f) == f.parts # <<>> /\ \A i \in DOMAIN f.parts : PartValid(f.parts[i])

RepresentableSamples(p) == PartValid(p) /\ p.samples # 0 /\ p.samples <= IntMax

RepresentableDimensions(p) == {p.width, p.height} \subseteq 1..IntMax

(* Mutant: only the width is compared. *)
SameWidth(p, width, height) == p.width = width

CompatibleDimensions(p, width, height) == p.width = width /\ p.height = height

(* The first index of a set, 0 if there is none. *)
First(indices) ==
  IF indices = {} THEN 0 ELSE CHOOSE i \in indices : \A j \in indices : i <= j

OfKind(parts, kind) == {i \in DOMAIN parts : parts[i].kind = kind}

------------------------------------------------------------------------------
(* selectRange: the typed Range part, or the first displayable part as a raw *)
(* preview.                                                                  *)

(* Mutant: an unusable typed Range part is not replaced by another part. *)
TypedOrNone(parts) ==
  LET typed == First(OfKind(parts, "Range"))
  IN IF typed # 0 /\ ~RepresentableSamples(parts[typed]) THEN 0
     ELSE IF typed # 0 THEN typed
     ELSE First({i \in DOMAIN parts : RepresentableSamples(parts[i])})

RangeIndex(parts) ==
  LET typed == First(OfKind(parts, "Range"))
  IN IF typed # 0 /\ RepresentableSamples(parts[typed]) THEN typed
     ELSE First({i \in DOMAIN parts : RepresentableSamples(parts[i])})

OneRowPreview(p) == ~RepresentableDimensions(p)

RawPartPreview(frame, index) ==
  \/ index # First(OfKind(frame.parts, "Range"))
  \/ frame.geometry = "unusable"
  \/ OneRowPreview(frame.parts[index])

(* Only RectifiedC has a physical X/Y grid; every other organized range is a *)
(* grid of pixels.                                                           *)
Grid(raw, oneRow, geometry) ==
  IF ~raw /\ geometry = "rectifiedC" THEN "UniformPhysical"
  ELSE IF ~oneRow \/ (~raw /\ geometry = "calibratedC") THEN "PixelGrid"
  ELSE "UniformPhysical"

(* The samples of the first part of a kind, if it has the shape of the range. *)
Channel(parts, kind, width, height) ==
  LET i == First(OfKind(parts, kind))
  IN IF i # 0 /\ CompatibleDimensions(parts[i], width, height) THEN parts[i].samples ELSE 0

(* External: RangeFrame::isValid. *)
RangeValid(range) == range.values # 0 /\ range.values = range.width * range.height

SelectRange(frame, auxiliary) ==
  LET index  == RangeIndex(frame.parts)
      part   == frame.parts[index]
      raw    == RawPartPreview(frame, index)
      oneRow == OneRowPreview(part)
      width  == IF oneRow THEN part.samples ELSE part.width
      height == IF oneRow THEN 1 ELSE part.height
      range  == [index |-> index, width |-> width, height |-> height, values |-> part.samples,
                 domain |-> IF raw THEN "Native" ELSE "Calibrated",
                 grid |-> Grid(raw, oneRow, frame.geometry),
                 pitch |-> ~raw /\ frame.geometry = "rectifiedC",
                 intensity |-> IF auxiliary THEN Channel(frame.parts, "Intensity", width, height)
                               ELSE 0,
                 confidence |-> IF auxiliary
                                  THEN Channel(frame.parts, "Confidence", width, height) ELSE 0]
  IN IF index # 0 /\ RangeValid(range) THEN range ELSE NoRange

------------------------------------------------------------------------------
(* intensityImage: every integer intensity part is also a 2D image. *)

EightBit(p) == p.bits \in 1..8
BytesPerSample(p) == IF EightBit(p) THEN 1 ELSE 2

RowFits(p) == p.width <= IntMax \div BytesPerSample(p)

HasImage(p) ==
  /\ p.kind = "Intensity" /\ p.storage = "Uint16"
  /\ RepresentableSamples(p) /\ RepresentableDimensions(p)
  /\ RowFits(p)

Image(parts, i) ==
  LET p == parts[i]
  IN [index |-> i, width |-> p.width, height |-> p.height,
      stride |-> p.width * BytesPerSample(p),
      size   |-> p.width * BytesPerSample(p) * p.height,
      bytes  |-> p.samples * BytesPerSample(p)]

Images(parts) == {Image(parts, i) : i \in {j \in DOMAIN parts : HasImage(parts[j])}}

------------------------------------------------------------------------------
(* convertGraphicsFrame: "range" stands for a request of Range, PointCloud or *)
(* Surface.                                                                    *)

Requests == [range : BOOLEAN, image : BOOLEAN, auxiliary : BOOLEAN]

NoGraphicsFrame == [range |-> NoRange, images |-> {}]

ConvertGraphicsFrame(frame, request) ==
  IF frame.parts = <<>> THEN NoGraphicsFrame
  ELSE [range  |-> IF request.range THEN SelectRange(frame, request.auxiliary) ELSE NoRange,
        images |-> IF request.image THEN Images(frame.parts) ELSE {}]
=============================================================================
