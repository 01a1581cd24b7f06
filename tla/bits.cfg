\* Encoding, decoding and copying fields in buffers that grow.
SPECIFICATION BitsSpec
CONSTANTS
  Byte = 2
  Fields <- AllFields
  Width = "width"
  Height = "height"
  Counted = "flag"
  Ints <- AllInts
  MaxBytes <- Sizes
  Ranges <- AllRanges
  Modulus = 16
INVARIANT DecodesBack
INVARIANT CountTrue
INVARIANT CopyExact
