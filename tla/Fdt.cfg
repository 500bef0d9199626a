SPECIFICATION Spec
CONSTANTS
  TagSize = 2
  HeaderSize = 2
  RsvMapOffset = 4
  RsvSize = 4
  Buffers = {3, 20, 29}
  Characters <- CharactersSmall
  Names <- NamesSmall
  Props <- PropsSmall
  Values <- ValuesSmall
  Sizes = {1}
VIEW View
INVARIANT TypeOK Fits HeaderTrue ReadersAgree
PROPERTY DocSpec
