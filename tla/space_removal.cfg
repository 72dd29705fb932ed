SPECIFICATION Spec
CONSTANTS
  w1 = w1  w2 = w2
  Workers = {w1, w2}
  Tables = {"spaces", "equipment", "space_managers", "reservations", "blockings", "sensor_devices",
            "equipment_status_history"}
  MaxRows = 4  MaxRemovals = 2
INVARIANTS TypeOK ActiveLostOnlyByRace RefusedByOutsiders RecordsProtectSpace
SYMMETRY Symmetry
