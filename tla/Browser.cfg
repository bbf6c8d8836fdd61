CONSTANTS
  Accounts = {alice, guest}
  Guest = guest
  Owner = alice
  Nobody = Nobody
  Unknown = Unknown
  MaxTurns = 2
  Fields = {url}
  MaxEdits = 2
  MaxRetries = 1
  MaxSpent = 2
  Styles = {plain, blue}
  Plain = plain
  Logos = {cat}
  None = None
  MaxLinks = 2
SPECIFICATION BrowserSpec
INVARIANTS TypeOK OthersDataIsALateEdit AcknowledgedIsShown DeletionIsShown BlankOnlyWhilePaused
INVARIANTS PaintedWhenReady UnpaintedExplained
INVARIANTS GeneratorTypeOK SavedAsSubmitted NewestIsShown
