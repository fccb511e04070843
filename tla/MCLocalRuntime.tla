---------------------------- MODULE MCLocalRuntime -----------------------------
(* One module, one setup file, two test files, of which one comes with the test *)
(* patch; patches that change, add, delete, one that was made of another tree   *)
(* and one that the base has already.                                           *)
EXTENDS LocalRuntime

Made(from, to) == [from |-> from, to |-> to]

MCFiles == {"module", "setup.py", "new", "test", "new test"}
MCTracked == {"module", "setup.py", "test"}
MCProtected == {"setup.py"}
MCPatches == {"fix", "larger fix", "build fix", "removal", "misfit", "old fix"}

MCHunks == [p \in MCPatches |->
  CASE p = "fix" -> [f \in {"module"} |-> Made("base", "fixed")]
    [] p = "larger fix" -> [f \in {"module", "new"} |->
         IF f = "new" THEN Made("none", "fixed again") ELSE Made("base", "fixed again")]
    [] p = "build fix" -> [f \in {"module", "setup.py"} |-> Made("base", "built")]
    [] p = "removal" -> [f \in {"module"} |-> Made("base", "none")]
    [] p = "old fix" -> [f \in {"module"} |-> Made("older", "base")]
    [] p = "misfit" -> [f \in {"module", "new"} |-> Made("other", "misfitted")]]

MCTestPatches ==
  {[f \in {"test"} |-> Made("base", "tested")],
   [f \in {"test", "new test"} |->
      IF f = "test" THEN Made("base", "tested") ELSE Made("none", "tested")]}
================================================================================
