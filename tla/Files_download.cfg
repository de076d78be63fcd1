SPECIFICATION FilesSpec
CONSTANTS
  Areas <- OneArea
  CallerLevels = {1}
  Names = {"SHORT", "FULL"}
  FullNames = {"FULL"}
  EntryMax = 2
  MaxUploads = 2
  FileFaults = {}
INVARIANT DownloadSendsTheUpload
