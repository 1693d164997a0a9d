\* Three files and three places for devices, two of each kind of disc and card.
SPECIFICATION MCSpec
CONSTANTS
  Files = 3
  Slots = 3
  Drivers = {"cdrom", "bu"}
  Ids = {0, 10}
  Modes = {{"read"}, {"write"}}
  SearchesApart = TRUE
  S = 3
  Blocks = 3
  MaxLength = 3
  Broken <- ReplacedSectors
  OnlySafe = TRUE
  BlockCount = 3
  FileNames = {"a", "b"}
  Cards = {"c1", "c2"}
  Width = 3
  CardDirectories <- SearchedDirectories
  OtherDirectory <- SecondDirectory
  CardPatterns <- SearchPatterns
  SearchApart = TRUE
  Discs = {"d1", "d2"}
  Listing <- Listings
  Below <- DirectoriesBelow
  NamesAsked = {"A", "B"}
  Patterns <- ListingPatterns
  FileLength = 2
  CdSlots = {"f"}
  FirstDisc = "d1"
INVARIANTS
  DescriptorsLead
  DiscFilesAreFound
  CardsKeepFiles
  SectorsInPlace
PROPERTIES
  ConsoleAfterExit
  DiscIsChecked
