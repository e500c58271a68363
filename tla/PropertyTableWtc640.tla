------------------------- MODULE PropertyTableWtc640 -------------------------
(***************************************************************************)
(* The adapters of a WTC640 camera that have addresses, with their device  *)
(* types and constraints, in the order createAdapters adds them            *)
(* (wtc640/source/propertieswtc640.cpp).  Components of composite          *)
(* properties and properties derived from others have no addresses; the    *)
(* focus type, a component, is represented by its article number.          *)
(***************************************************************************)
EXTENDS PropertyRegister

ReadOnly  == {"read"}
ReadWrite == {"read", "write"}

\* createStatusFunction with the flags of all devices, of the main firmware or of
\* the loader.
All(access)    == [loader |-> access, main |-> access]
Main(access)   == [loader |-> {}, main |-> access]
Loader(access) == [loader |-> access, main |-> {}]

\* An adapter over one register, of whatever type of value.
Adapter(id, itsRanges, access) == [id |-> id, ranges |-> itsRanges, access |-> access]
At(id, range, access) == <<Adapter(id, <<range>>, access)>>

\* A register and the one it is loaded from at start.
Both(id, range, access) ==
    At(id \o "_CURRENT", range, access) \o At(id \o "_IN_FLASH", InFlash(range), access)
Setting(id, first) == Both(id, Register(first), Main(ReadWrite))

ControlAdapters == At("STATUS", STATUS, All(ReadOnly))

VersionAdapters ==
       At("MAIN_FIRMWARE_VERSION", MAIN_FIRMWARE_VERSION, All(ReadOnly))
    \o At("LOADER_FIRMWARE_VERSION", LOADER_FIRMWARE_VERSION, All(ReadOnly))
\* Fault: the loader is taken to have a register of the main firmware.
SerialNumberAdapters_All == Both("SERIAL_NUMBER", Bytes(\h114, 32), All(ReadOnly))
SerialNumberAdapters  == Both("SERIAL_NUMBER", Bytes(\h114, 32), Main(ReadOnly))
ArticleNumberAdapters == Both("ARTICLE_NUMBER", Bytes(\h134, 32), Main(ReadOnly))
GeneralAdapters ==
       VersionAdapters
    \o At("PLUGIN_TYPE", PLUGIN_TYPE, All(ReadOnly))
    \o At("MAIN_FIRMWARE_TYPE", Register(\h108), Main(ReadOnly))
    \o At("FPGA_BOARD_TEMPERATURE", Register(\h10C), Main(ReadOnly))
    \o At("SHUTTER_TEMPERATURE", Register(\h110), Main(ReadOnly))
    \o SerialNumberAdapters
    \o ArticleNumberAdapters
    \o Setting("LED_R_BRIGHTNESS", \h164)
    \o Setting("LED_G_BRIGHTNESS", \h168)
    \o Setting("LED_B_BRIGHTNESS", \h16C)

NUCAdapters ==
       At("TIME_FROM_LAST_NUC_OFFSET_UPDATE", Register(\h304), Main(ReadOnly))
    \o Setting("NUC_UPDATE_MODE", \h308)
    \o At("INTERNAL_SHUTTER_POSITION", Register(\h314), Main(ReadWrite))
    \o Setting("NUC_MAX_PERIOD", \h320)
    \o Setting("NUC_ADAPTIVE_THRESHOLD", \h324)

ConnectionAdapters ==
       At("UART_BAUDRATE_CURRENT", UART_BAUDRATE, All(ReadWrite))
    \o At("UART_BAUDRATE_IN_FLASH", InFlash(UART_BAUDRATE), Main(ReadWrite))
    \o At("BOOT_TO_LOADER_IN_FLASH", BOOT_TO_LOADER_IN_FLASH, Loader(ReadWrite))

PaletteId(i) == ToString(i + 1)
PaletteAdapters ==
       Setting("PALETTE_INDEX", \h200)
    \o FlattenSeq([k \in 1..Cardinality(Palettes) |->
         <<Adapter("PALETTE_CURRENT_" \o PaletteId(k - 1),
                   <<PaletteData(k - 1), PaletteName(k - 1)>>, Main(ReadWrite)),
           Adapter("PALETTE_IN_FLASH_" \o PaletteId(k - 1),
                   <<Moved(PaletteData(k - 1), PALETTES_FLASH_OFFSET),
                     Moved(PaletteName(k - 1), PALETTES_FLASH_OFFSET)>>, Main(ReadWrite))>>])

ImageFlipAdapters == Setting("IMAGE_FLIP", \h208)
VideoAdapters ==
       PaletteAdapters
    \o Setting("FRAMERATE", \h204)
    \o At("FPS_LOCK", Register(\h220), Main(ReadWrite))
    \o ImageFlipAdapters
    \o At("IMAGE_FREEZE", Register(\h20C), Main(ReadWrite))
    \o Setting("GAMMA_CORRECTION", \h634)
    \o Setting("MAX_AMPLIFICATION", \h638)
    \o At("TEST_PATTERN", Register(\h214), Main(ReadWrite))
    \o Setting("VIDEO_FORMAT", \h210)
    \o Setting("RETICLE_MODE", \h234)
    \o Setting("RETICLE_SHIFT_X_AXIS", \h238)
    \o Setting("RETICLE_SHIFT_Y_AXIS", \h23C)

ConbrightAdapters ==
       Setting("MGC_CONTRAST_BRIGHTNESS", \h608)
    \o At("FRAME_BLOCK_MEDIAN_CONBRIGHT", Register(\h60C), Main(ReadWrite))
FiltersAdapters ==
       Setting("TIME_DOMAIN_AVERAGE", \h600)
    \o Setting("IMAGE_EQUALIZATION_TYPE", \h604)
    \o Setting("LINEAR_GAIN_WEIGHT", \h620)
    \o Setting("CLIP_LIMIT", \h624)
    \o Setting("PLATEAU_TAIL_REJECTION", \h628)
    \o Setting("SMART_MEDIAN_THRESHOLD", \h630)
    \o Setting("SMART_TIME_DOMAIN_AVERAGE_THRESHOLD", \h62C)
    \o ConbrightAdapters
    \o Setting("AGC_NH_SMOOTHING", \h610)
    \o Setting("PLATEAU_SMOOTHING", \h63C)
    \o Setting("SPATIAL_MEDIAN_FILTER_ENABLE", \h614)

DPRAdapters ==
       <<Adapter("DEAD_PIXELS_CURRENT",
                 <<DEAD_PIXELS_CURRENT, DEAD_PIXELS_REPLACEMENTS_CURRENT>>, Main(ReadWrite)),
         \* These two touch, and become one range.
         Adapter("DEAD_PIXELS_IN_FLASH",
                 <<FirstToLast(DEAD_PIXELS_IN_FLASH.first, DEAD_PIXELS_REPLACEMENTS_IN_FLASH.last)>>,
                 Main(ReadWrite))>>
    \o Setting("DEAD_PIXELS_CORRECTION_ENABLED", \h800)

FocusAdapters ==
       At("MOTOR_FOCUS_MODE", Register(\h900), Main(ReadWrite))
    \o At("CURRENT_MF_POSITION", Register(\h904), Main(ReadOnly))
    \o At("TARGET_MF_POSITION", Register(\h908), Main(ReadWrite))
    \o At("MAXIMAL_MF_POSITION", Register(\h90C), Main(ReadOnly))
    \o At("LENS_SERIAL_NUMBER", Bytes(\h910, 32), Main(ReadOnly))
    \o At("LENS_ARTICLE_NUMBER", Bytes(\h930, 32), Main(ReadOnly))

PresetsAdapters ==
       Setting("SELECTED_PRESET_INDEX", \hA00)
    \o At("CURRENT_PRESET_INDEX", Register(\hA04), Main(ReadOnly))

\* createAdapters
StaticAdapters ==
    ControlAdapters \o GeneralAdapters \o NUCAdapters \o ConnectionAdapters \o VideoAdapters
    \o FiltersAdapters \o DPRAdapters \o FocusAdapters \o PresetsAdapters

\* The ranges above are what AddressRanges makes of those in the code.
ASSUME RangesAreSet ==
    /\ \A i \in DOMAIN StaticAdapters :
         SetRanges(Reverse(StaticAdapters[i].ranges)) = StaticAdapters[i].ranges
    /\ SetRanges(<<DEAD_PIXELS_REPLACEMENTS_IN_FLASH, DEAD_PIXELS_IN_FLASH>>) \in
         { StaticAdapters[i].ranges : i \in DOMAIN StaticAdapters }

\* The adapters of one preset, with the sizes of their ranges.
PresetAdapter(id, size) == [id |-> id, size |-> size, access |-> Main(ReadWrite)]
PresetAdapters ==
    <<PresetAdapter("PRESET_TIMESTAMP", 1), PresetAdapter("PRESET_ID", 1),
      PresetAdapter("PRESET_GAIN_MATRIX", PRESET_MATRIX_SIZE),
      PresetAdapter("PRESET_ONUC_MATRIX", PRESET_MATRIX_SIZE)>>

-----------------------------------------------------------------------------
(* What the constraints tell apart of the values of their sources.         *)

PluginAnswers == {"cmos", "usb", "pleora", "onvif", "error"}
FocusAnswers  == {"manual", "motoric", "bayonet"}
FreezeAnswers == {"frozen", "moving"}
PresetIdAnswers == {"defined", "undefined"}
Values == {None, "value"} \cup PluginAnswers \cup FocusAnswers \cup FreezeAnswers \cup PresetIdAnswers

Limited(source, values, access, otherwise) ==
    [source |-> source, limit |-> [v \in Values |-> IF v \in values THEN access ELSE otherwise]]

\* Lenses with a bayonet have a motor.
MotorFocusConstraint == Limited("ARTICLE_NUMBER_CURRENT", {"motoric", "bayonet"}, ReadWrite, {})
LensConstraint == Limited("ARTICLE_NUMBER_CURRENT", {"bayonet"}, ReadWrite, {})
ImageFreezeConstraint == Limited("IMAGE_FREEZE", {"moving"}, ReadWrite, ReadOnly)
ConnectionConstraint == Limited("PLUGIN_TYPE", {"cmos", "usb"}, ReadWrite, {})
\* With a plugin on USB the stream is taken not to run.
VideoFormatConstraint == Limited("PLUGIN_TYPE", {"cmos", "pleora", "onvif"}, ReadWrite, ReadOnly)
DefinedPresetConstraint == Limited("PRESET_ID", {"defined"}, ReadWrite, {})
NoConstraint == [source |-> NoSource, limit |-> [v \in Values |-> Access]]

ConstraintOf(id) ==
    CASE id \in {"MOTOR_FOCUS_MODE", "CURRENT_MF_POSITION", "TARGET_MF_POSITION",
                 "MAXIMAL_MF_POSITION"} -> MotorFocusConstraint
      [] id \in {"LENS_SERIAL_NUMBER", "LENS_ARTICLE_NUMBER"} -> LensConstraint
      [] id = "TEST_PATTERN" -> ImageFreezeConstraint
      [] id \in {"UART_BAUDRATE_CURRENT", "UART_BAUDRATE_IN_FLASH"} -> ConnectionConstraint
      [] id \in {"VIDEO_FORMAT_CURRENT", "VIDEO_FORMAT_IN_FLASH"} -> VideoFormatConstraint
      [] id \in {"PRESET_TIMESTAMP", "PRESET_GAIN_MATRIX", "PRESET_ONUC_MATRIX"} ->
           DefinedPresetConstraint
      [] OTHER -> NoConstraint

AdapterIds(adapters) == [i \in DOMAIN adapters |-> adapters[i].id]
AllAdapters == ToSet(StaticAdapters) \cup ToSet(PresetAdapters)
\* The union with a function of no properties makes TLC evaluate the rows once.
WtcRow == [id \in { a.id : a \in AllAdapters } |->
             (CHOOSE a \in AllAdapters : a.id = id) @@ ConstraintOf(id)] @@ [id \in {} |-> {}]
WtcStatic == AdapterIds(StaticAdapters)
WtcPresets == AdapterIds(PresetAdapters)

=============================================================================
