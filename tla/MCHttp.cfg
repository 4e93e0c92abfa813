SPECIFICATION Spec
CONSTANTS
  Messages <- MCMessages
  Chars = {"a", ":", "/", "[", "]", "80"}
  Number <- MCNumber
  max_header_bytes = 5
  max_body_bytes = 4
  SizeValues = 16
INVARIANTS
  OriginGetsRequest
  KeyDeterminesTarget

  
