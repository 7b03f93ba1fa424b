SPECIFICATION Spec
CONSTANTS
  Calls = {c1, c2, c3}
  Rfqs = {r1, r2}
  NoCall = NoCall
  Instruments <- MCInstruments
  Notional <- MCNotional
  Configs <- MCConfigs
SYMMETRY Symmetry
PROPERTIES
  KeepsLedger
  ReservesWithinLimits
  NoLostUpdate
