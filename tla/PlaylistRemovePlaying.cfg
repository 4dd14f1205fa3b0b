SPECIFICATION Spec
CONSTANTS
  Track = {1, 2}
  NoVideo = NoVideo
  MaxLen = 3
  MaxEvents = 2
PROPERTY
  RemovalPlaysPrevious
