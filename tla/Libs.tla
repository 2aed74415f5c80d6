-------------------------------- MODULE Libs --------------------------------
(***************************************************************************)
(* The library code of the kernel, libs/ and kern/libs/: the kernel has    *)
(* one thread of control, which is in the string functions or in those of  *)
(* the console, never in both.                                             *)
(***************************************************************************)
EXTENDS Strings, Console

LibsInit == StringsInit /\ ConsoleInit

InStrings == pc = "idle" /\ StringsNext /\ UNCHANGED consoleVars
InConsole == at = "idle" /\ ConsoleNext /\ UNCHANGED stringVars

LibsNext == InStrings \/ InConsole

Spec == LibsInit /\ [][LibsNext]_<<stringVars, consoleVars>>
=============================================================================
