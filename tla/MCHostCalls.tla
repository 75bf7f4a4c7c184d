---------------------------- MODULE MCHostCalls ----------------------------
(* A plugin that asks for properties, on a host with one free index.        *)
EXTENDS HostCalls

AnyFree(F) == F
=============================================================================
