CONSTANTS
  Styles = {plain, fancy}
  Logos = {cat}
  MaxSaves = 2
  Faults = {"crash", "storage", "database"}
  Null = Null
  Editors = {e1, e2}
  Default = plain
  MaxFetches = 2
SPECIFICATION Spec
PROPERTY KeptLogoSurvives
