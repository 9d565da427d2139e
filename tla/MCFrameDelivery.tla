--------------------------- MODULE MCFrameDelivery ---------------------------
(* Small buffers: a uint32 of five bits, dimensions that fit it, do not fit   *)
(* it, are zero or come as three, and parts as the tests of the adapter build *)
(* them, some of them invalid.                                                *)
EXTENDS FrameDelivery

MCDimensionVectors == {<<1>>, <<2, 2>>, <<1, 4>>, <<0, 2>>, <<16, 2>>, <<2, 2, 2>>, <<15>>}

Given(kind, storage, bits, width, height, samples) ==
  [kind |-> kind, storage |-> storage, bits |-> bits, width |-> width, height |-> height,
   samples |-> samples, finiteScale |-> TRUE]

MCForeignParts ==
  {Given("Range", "Float64", 64, 2, 2, 4), Given("Range", "Uint16", 16, 2, 2, 3),
   Given("Range", "Uint16", 16, 16, 1, 16), Given("Unknown", "Uint16", 16, 2, 2, 4),
   Given("Intensity", "Uint16", 16, 2, 2, 4), Given("Intensity", "Uint16", 8, 15, 1, 15),
   Given("Intensity", "Uint16", 12, 15, 1, 15), Given("Intensity", "Uint16", 16, 0, 0, 0),
   Given("Intensity", "Float64", 0, 2, 2, 4),
   [Given("Range", "Uint16", 16, 2, 2, 4) EXCEPT !.finiteScale = FALSE]}
=============================================================================
