CONSTANTS
  Styles = {plain, fancy}
  Logos = {cat}
  MaxSaves = 2
  Faults = {"crash", "storage", "database"}
  Null = Null
  Editors = {e1}
  Default = plain
  MaxFetches = 2
SPECIFICATION Spec
INVARIANTS TypeOK RowIsOneSave WhatYouSeeIsSaved
PROPERTIES LogoLossExplained

