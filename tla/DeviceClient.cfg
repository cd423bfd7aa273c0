CONSTANTS
  Hosts = {h1, h2}
  Images = {i1, i2}
  Releases = {v1}
  Refreshes = {k1}
  MaxChanges = 1
SPECIFICATION FairSpec
PROPERTIES
  ImageIsShown
  AnnouncedIfAllParse
