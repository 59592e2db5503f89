SPECIFICATION MCSpec
CONSTANTS
  MaxEcosystems = 3
INVARIANTS
  StartsIfItCan
  PopupLeftAlone
  PopupIsObeyed
CHECK_DEADLOCK FALSE
