CONSTANTS
  Accounts = {alice, guest}
  Guest = guest
  Owner = alice
  Nobody = Nobody
  Unknown = Unknown
  MaxTurns = 1
  Fields = {}
  MaxEdits = 1
  MaxRetries = 1
  MaxSpent = 2
  Styles = {plain}
  Plain = plain
  Logos = {cat}
  None = None
  MaxLinks = 1
SPECIFICATION ViewsAlone
PROPERTIES LoadingEnds
