CONSTANTS
  Accounts = {alice, guest}
  Guest = guest
  Owner = alice
  Nobody = Nobody
  Unknown = Unknown
  MaxTurns = 0
  Fields = {url}
  MaxEdits = 0
  MaxRetries = 0
  MaxSpent = 0
  Styles = {plain, blue}
  Plain = plain
  Logos = {cat}
  None = None
  MaxLinks = 1
SPECIFICATION BrowserSpec
INVARIANT LookComesBack
