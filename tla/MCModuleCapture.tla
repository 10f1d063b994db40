--------------------------- MODULE MCModuleCapture ---------------------------
(* ModuleCapture with two modules: an out-of-tree one with functions ftrace  *)
(* can trace, and an in-tree helper without.  Both have the symbol           *)
(* init_module and one of its own.  The out-of-tree one occupies two         *)
(* load_module regions.                                                      *)
EXTENDS ModuleCapture

CONSTANTS oot, helper

MCModules == {oot, helper}
MCMarker == [m \in MCModules |-> IF m = oot THEN {"O", "E"} ELSE {}]
MCTraceable == {oot}
MCRegions == 1 .. 3
MCRegionsOf == [m \in MCModules |-> IF m = oot THEN {1, 2} ELSE {3}]
MCSymbolsOf == [m \in MCModules |-> IF m = oot THEN {"init_module", "oot_fn"}
                                    ELSE {"init_module", "helper_fn"}]
=============================================================================
