\* One operation at a time; pulls at any moment between, of the open note too.
SPECIFICATION FairSpec
CONSTANTS
  Path = {a, b}
  Folder = {b}
  Screen = {s1}
  Background = bg
  None = none
  Disturbances = {"pullCurrent"}
  MaxTexts = 4
INVARIANTS TypeOK EntryMatchesFile TextStaysInItsNote NoMarkMeansSaved
PROPERTIES SavesReviveNothing DebounceSaves
