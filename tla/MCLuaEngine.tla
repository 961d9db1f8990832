------------------------------ MODULE MCLuaEngine ------------------------------
(* LuaEngine with the constants of its runs. *)
EXTENDS LuaEngine
===============================================================================
