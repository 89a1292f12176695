SPECIFICATION FairSpec
CONSTANTS
  Interfaces = 14
  Size = 4
  KeySets = 2
INVARIANT TypeOK
INVARIANT PacketsReadable
 
INVARIANT AttributesFollow
 
