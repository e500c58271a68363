-------------------------- MODULE MemorySpaceWtc640 --------------------------
(***************************************************************************)
(* The addresses of a WTC640 camera (wtc640/memoryspacewtc640.h) and what  *)
(* of them each device type has (wtc640/source/memoryspacewtc640.cpp).     *)
(*                                                                         *)
(* Addresses and sizes are counted in words of four bytes, of which every  *)
(* range of a property is made; the space then ends at \h3FFFFFFF.         *)
(***************************************************************************)
EXTENDS AddressRanges

\* A range given in bytes, as the source writes it; the address has to stay
\* below 2^31.
Bytes(first, size) == FirstAndSize(first \div 4, size \div 4)
Register(first) == Bytes(first, 4)

Types == {"none", "loader", "main"}

CONFIGURATION_REGISTERS == Bytes(0, \h1000)
SENSOR_ULIS  == FirstToLast(\h14000000, \h1400003E)
FLASH_MEMORY == FirstToLast(\h34000000, \h37FFFFFF)
RAM          == FirstToLast(\h38000000, \h3FFFFFFF)
LOADER_FIRMWARE_DATA == FirstToLast(\h34000000, \h37FFFFFF)
FLASH_REGISTERS_START == FLASH_MEMORY.first + \h800000 \div 4

\* Registers of the configuration, by their addresses in bytes.
DEVICE_IDENTIFICATOR    == Register(\h0000)
TRIGGER                 == Register(\h0004)
STATUS                  == Register(\h000C)
MAIN_FIRMWARE_VERSION   == Register(\h0100)
PLUGIN_TYPE             == Register(\h0104)
LOADER_FIRMWARE_VERSION == Register(\h0170)
UART_BAUDRATE           == Register(\h0400)
BOOT_TO_LOADER_IN_FLASH == FirstAndSize(FLASH_REGISTERS_START, 1)

\* The same register in the flash, from which the camera takes it at start.
InFlash(r) == Moved(r, FLASH_REGISTERS_START)

\* Palettes: the data of all of them come before the names of all of them.
PALETTES_FACTORY_MAX_COUNT == 14
PALETTES_USER_MAX_COUNT == 2
Palettes == 0..PALETTES_FACTORY_MAX_COUNT + PALETTES_USER_MAX_COUNT - 1
PALETTES_REGISTERS   == FirstToLast(\hC000000, \hC00103F)
PALETTES_FLASH_OFFSET == \h28250400
PaletteData(i) == FirstAndSize(PALETTES_REGISTERS.first + i * 256, 256)
PaletteName(i) == FirstAndSize(PALETTES_REGISTERS.first + \h1000 + i * 4, 4)

\* Dead pixels and their replacements, each with room for the terminator.
MAX_DEADPIXELS_COUNT == 2047
MAX_REPLACEMENTS_COUNT == 4095
DEAD_PIXELS_CURRENT              == FirstAndSize(\h8800000, MAX_DEADPIXELS_COUNT + 1)
DEAD_PIXELS_REPLACEMENTS_CURRENT == FirstAndSize(\h8C00000, 2 * (MAX_REPLACEMENTS_COUNT + 1))
DEAD_PIXELS_IN_FLASH              == FirstAndSize(\h34202C00, MAX_DEADPIXELS_COUNT + 1)
DEAD_PIXELS_REPLACEMENTS_IN_FLASH == FirstAndSize(\h34203400, 2 * (MAX_REPLACEMENTS_COUNT + 1))

PRESET_MATRIX_SIZE == (640 * 480 * 2) \div 4

Descriptor(range, type) == [range |-> range, type |-> type]

\* getDeviceSpace
DeviceSpace(type) ==
    CASE type = "loader" ->
           { Descriptor(r, "REGISTERS") :
               r \in { DEVICE_IDENTIFICATOR, TRIGGER, STATUS, MAIN_FIRMWARE_VERSION,
                       LOADER_FIRMWARE_VERSION, PLUGIN_TYPE, UART_BAUDRATE } }
           \cup { Descriptor(LOADER_FIRMWARE_DATA, "FLASH") }
      [] type = "main" ->
           { Descriptor(r, "REGISTERS") :
               r \in { CONFIGURATION_REGISTERS, DEAD_PIXELS_CURRENT,
                       DEAD_PIXELS_REPLACEMENTS_CURRENT, PALETTES_REGISTERS } }
           \cup { Descriptor(SENSOR_ULIS, "ULIS"), Descriptor(FLASH_MEMORY, "FLASH"),
                  Descriptor(RAM, "RAM"), Descriptor(LOADER_FIRMWARE_DATA, "FLASH") }
      [] type = "none" ->
           { Descriptor(DEVICE_IDENTIFICATOR, "REGISTERS"), Descriptor(STATUS, "REGISTERS") }

\* getMemoryDescriptor: the descriptors that have all of the range.
MemoryDescriptors(type, range) == { d \in DeviceSpace(type) : RangeContains(d.range, range) }

=============================================================================
