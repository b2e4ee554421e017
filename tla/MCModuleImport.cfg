\* Does IMPORT always rethrow an exception instance when the module fails?
CONSTANTS
  s = s  mThrows = mThrows  mMissing = mMissing  mCycle = mCycle
  Modules <- MCModules
  Script = s
  Body <- MCBody
  Guarded <- MCGuarded
  Missing = {mMissing}
  Broken = {}
  Throwing = {mThrows}
  FRAMES_MAX = 4
SPECIFICATION Spec
INVARIANT ThrowsExceptionInstance
