CONSTANTS
  MaxTag = 2
  FirstVersions <- MCFirstVersions
  BundleReleases = {}
  Chunks = 2
  MaxChecks = 2
  MaxDownloads = 1
SPECIFICATION Spec
INVARIANTS TypeOK InstallsWhole
PROPERTIES DownloadedIsInstalled DismissedStays AskedIsAnswered QuietAfterAnswer NeverSticks
