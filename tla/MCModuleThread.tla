--------------------------- MODULE MCModuleThread ---------------------------
(* Instances of ModuleThread for TLC: one thread, one server.               *)
EXTENDS ModuleThread
AnyInstance == Instance
ThreadDbFails == {"thread"}
AllDbFails == {"server", "thread"}
=============================================================================
