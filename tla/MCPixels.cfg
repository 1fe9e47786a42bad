SPECIFICATION Spec
CONSTANTS
  SizeMax = 63
  ArrayMax = 29
  Images <- MCImages
  Transforms <- MCTransforms
  Frames <- MCFrames
  SinkOptions <- MCSinkOptions
  Pictures <- MCPictures
INVARIANTS
  ConversionIsExact
  TransformIsExact
  SizesAreTrue
  PicturesKeepColours
