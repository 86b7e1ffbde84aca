CONSTANTS
  Tasks = {t, u}
  Old = {t}
  MaxMigrations = 3
  None = None
SPECIFICATION Spec
PROPERTIES RollbackTurnsOff
