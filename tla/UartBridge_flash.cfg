SPECIFICATION Spec
CONSTANTS
  Chip <- TwoChips
  Pool = 2
  MaxFlashes = 1
  MaxScripts = 1
  NoOne = NoOne
  Avrdude = Avrdude
PROPERTIES FlashKeepsSlot
