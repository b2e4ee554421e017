--------------------------- MODULE MCModuleImport ---------------------------
(***************************************************************************)
(* Model-checking instance of ModuleImport.  The script imports a module  *)
(* whose body throws (inside a try block), a module that cannot be found  *)
(* (inside a try block), and a module that imports itself.                *)
(***************************************************************************)
EXTENDS ModuleImport, TLC

CONSTANTS s, mThrows, mMissing, mCycle

MCModules == {mThrows, mMissing, mCycle}
MCBody == (s :> <<mThrows, mMissing, mCycle>>) @@ (mThrows :> <<>>)
          @@ (mMissing :> <<>>) @@ (mCycle :> <<mCycle>>)
MCGuarded == (s :> {1, 2}) @@ (mThrows :> {}) @@ (mMissing :> {}) @@ (mCycle :> {})
=============================================================================
