SPECIFICATION Spec
CONSTANTS
  SECTORSIZE = 4
  BUFSIZE = 16
  NSECTORS = 15
  PAGESIZE = 8
  ELFHDR = 0
  MEMSIZE = 104
  Content <- MCContent
  Arguments <- MCArguments
  Elf <- MCElf
  ramimages <- MCramimages
INVARIANTS
  ImageLayout
  SectorCount
  ReadsWithinDisk
  KernelLoaded
  ProgramsLoaded
CHECK_DEADLOCK FALSE
