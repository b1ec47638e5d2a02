SPECIFICATION Spec
CONSTANTS
    Vcpus = {"v1", "v2"}
    Main = "v1"
    dma_regs <- MCRegs
    Values = {0, 1, 4}
    PageSize = 4
    MMIO_SIZE = 1
    FileSizes <- MCSizes
    Models <- MCModels
    MaxFiles = 2
INVARIANTS
    RegionsOnce
    WritesInBuffer
    ReadsInFile
    FitsIsFed
PROPERTIES
    ListStable
