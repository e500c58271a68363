-------------------------- MODULE MCPropertyRegister --------------------------
(* The register of a WTC640 camera with the addresses of its presets.      *)
EXTENDS PropertyTableWtc640

\* Names for what TLC has evaluated; what a cfg names it evaluates at each use.
MCRow == WtcRow
MCStatic == WtcStatic
MCPresets == WtcPresets

Answer(p) ==
    CASE p = "PLUGIN_TYPE" -> {"cmos", "pleora", "error"}
      [] p = "ARTICLE_NUMBER_CURRENT" -> {"bayonet"}
      [] p = "IMAGE_FREEZE" -> FreezeAnswers
      [] p = "PRESET_ID" -> PresetIdAnswers
      [] OTHER -> {"value"}
AnswersOf == [p \in DOMAIN WtcRow |-> Answer(p) \cup (IF p = "STATUS" THEN Values \ {None} ELSE {})]
MCAnswers == AnswersOf

MCTouched == {"UART_BAUDRATE_CURRENT", "PALETTE_CURRENT_3", "DEAD_PIXELS_CURRENT",
              "PRESET_GAIN_MATRIX"}

PresetMemory == \h35000000
MCPresetAddresses ==
    <<{PresetMemory, PLUGIN_TYPE.first, BOOT_TO_LOADER_IN_FLASH.first + \h100},
      {PresetMemory + 1, PresetMemory},
      {PresetMemory + 16, PresetMemory - 16},
      {PresetMemory + 16 + PRESET_MATRIX_SIZE, PresetMemory + 15 + PRESET_MATRIX_SIZE}>>

\* The first registers; the middle of a palette to its name; dead pixels; a preset.
MCWildRanges ==
    {<<FirstAndSize(0, 256)>>,
     <<FirstAndSize(PaletteData(2).first + 8, 4), FirstAndSize(PaletteName(2).first + 1, 1)>>,
     <<FirstAndSize(DEAD_PIXELS_REPLACEMENTS_CURRENT.first + 4, 4)>>,
     <<FirstAndSize(PresetMemory, 64)>>}

=============================================================================
