------------------------------ MODULE MCWinHooks ------------------------------
(* WinHooks for TLC.  The functions of ntdll and kernel32 lie together, exit is *)
(* out of reach of their block.  unload is too short for a long jump and has   *)
(* padding above it; absent is not found by GetProcAddress.                     *)
EXTENDS WinHookProperties

Inst(len, kind) == [len |-> len, kind |-> kind, dest |-> 0]

MCHeap == <<"free">>
MCModules == <<"unload", "absent">>
MCFns == {"free", "unload", "absent", "exit"}
MCExit == "exit"

Long == [insts |-> <<Inst(3, "plain"), Inst(4, "rip"), Inst(1, "ret")>>, pad |-> 0, above |-> FALSE]
Short == [insts |-> <<Inst(2, "plain"), Inst(1, "ret")>>, pad |-> 0, above |-> TRUE]

MCFnCode == [f \in MCFns |-> IF f = "unload" THEN Short ELSE Long]
MCAddress == [f \in MCFns |-> IF f = "exit" THEN 57 ELSE 17]
MCTaken == {16, 56}
MCRefused == {8}

CONSTANTS main, other, third
MCUses == [t \in {main, other, third} |->
             IF t = main THEN {"exit"} ELSE IF t = other THEN {"free", "exit"} ELSE {"unload"}]
MCCrowd == [c \in {"rmem", "any"} |-> {main, other} \cup (IF c = "rmem" THEN {third} ELSE {})]

\* Three trampolines have room near each function, exit included.
ASSUME MCRoomy == Roomy
===============================================================================
