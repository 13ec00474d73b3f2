SPECIFICATION Spec
CONSTANTS
    Buffers <- SampleBuffers
    Tags = {90, 160, 48931}
    Lengths = {0, 127, 128, 256}
    SizeofLong = 3
    Longs <- SampleLongs
    MaxBit = 9
    Digits <- SampleDigits
    Padding = {0, 1, 3}
    Plains <- SamplePlains
    MaxItems = 3
    Iccids <- SampleIccids
    Environments <- SampleEnvironments
    ReaderLists <- SampleReaders
    Directories <- SampleDirectories
    MssTexts <- SampleMss
INVARIANT
    IgnoredNeverOpened
CHECK_DEADLOCK FALSE
