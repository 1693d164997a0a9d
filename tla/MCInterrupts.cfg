\* Two slots for two causes, opened and closed for each other's; chains; a drive.
SPECIFICATION MCSpec
CONSTANTS
  Slots = {0, 1}
  Whats = {vblank, card}
  Handlers = {onVblank}
  NULL = NULL
  MaxRetries = 3
  MaxTries = 2
  ReadCounts = {1, 2, 3}
  SeekIsAtomic = TRUE
  UserPriority = 1
  Sites = {"patch_card_info_1", "patch_card2_2", "patch_pad_1", "patch_pad_2",
           "patch_pad_3", "remove_ChgclrPAD_1", "remove_ChgclrPAD_2", "send_pad_1",
           "send_pad_2", "patch_gte_1"}
  Permissive = FALSE
INVARIANTS
  EventsDelivered
  ChainsAreKept
  AnswersAreOwn
  PatchesAreReplaced
PROPERTIES
  WaitReturns
  ExceptionsEnd
  ReadsEndWhole
