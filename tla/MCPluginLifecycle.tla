-------------------------- MODULE MCPluginLifecycle --------------------------
(* PluginLifecycle with the constants of its runs. *)
EXTENDS PluginLifecycle
===============================================================================
