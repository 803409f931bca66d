SPECIFICATION StorageSpec
CONSTANTS
  Capacity = 2
  DiskBlocks = 3
  sda1 = sda1
  sda2 = sda2
  Devices = {sda1, sda2}
  NoDevice = NoDevice
  Start <- MCStart
  Total <- MCTotal
  Values = {x, y}
  NoValue = NoValue
  MaxLba = 1
  MaxCount = 2
  LastCluster = 5
  DirEntries = 3
  ClusterSize = 2
  MaxCached = 4
  Short <- MCShort
  FilePaths <- MCFilePaths
  FatValues = {1}
  Sizes = {1, 3}
  FatCalls = 3
  DeviceMax = 3
  VfsMax = 4
  FatMax = 3
  VolumeMax = 2
  DiskSize = 3
  Tables <- MCTables
  LastLetter = 6
  DeviceIds = 3
  RamPaths = {"r", "p", "q"}
  BuiltIn = {"r"}
  RamData = {"x", "y"}
  RamSlots = 2
  Archives <- MCArchives
  HeaderSize = 10
  MaxFiles = 2
  DriverKinds = {"ahci", "nvme", "virtio"}
  MediaBlocks = 2
  BounceBlocks = 1
  SlotCount = 2
  IndexModulus = 4
  MediaData = {1, 2}
  Transfers = 2
  PackageFiles <- MCPackageFiles
  DriveSlots = 7
  DbMax = 2
  DbFilesMax = 4
SYMMETRY DataSymmetry
INVARIANTS OneEntryPerBlock FlushReachesDisk ReadsAreCurrent
            BystandersSurvive  
           
PROPERTIES CacheKeepsPromise
CHECK_DEADLOCK FALSE
