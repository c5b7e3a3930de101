----------------------------- MODULE ASMLoads ------------------------------
(***************************************************************************)
(* The load sequences of ASMIOWrapper::read                                *)
(* (src/lib/iowrapper/asm_iowrapper.cpp).  Every instruction loads one     *)
(* line of 64 bytes; a line is named by its distance from the address of   *)
(* the page, in lines.                                                     *)
(***************************************************************************)
EXTENDS Integers

LineBytes == 64

\* the lines that READ_NT_4096_ASM loads, counted from %[addr]
READ_NT_4096 == 0 .. 63

\* the lines that READ_NT_8192_ASM loads, counted from %[addr]
READ_NT_8192 == 0 .. 127

\* mutant: the address is advanced by half of what has been loaded
AdvancingByHalf(n) == {k * 64 + line : k \in 0 .. n - 1, line \in READ_NT_8192}

\* n times READ_NT_8192_ASM, each followed by "add $8192, %[addr]"
Advancing(n) == {k * 128 + line : k \in 0 .. n - 1, line \in READ_NT_8192}

\* the loop for long pages: len / 8192 times READ_NT_8192_ASM from the same
\* address, which is advanced behind the loop only
NotAdvancing(n) == IF n > 0 THEN READ_NT_8192 ELSE {}

\* the lengths for which there is a sequence of loads; any other ends in crash()
ASMReads(len) ==
  \/ len \in {4096, 8192, 16384, 32768, 65536}
  \/ len > 65536 /\ len % 8192 = 0

\* the lines of the page that a read of len bytes loads
LoadedLines(len) ==
  CASE len = 4096                             -> READ_NT_4096
    [] len = 8192                             -> READ_NT_8192
    [] len \in {16384, 32768, 65536}          -> Advancing(len \div 8192)
    [] len > 65536 /\ len % 8192 = 0          -> NotAdvancing(len \div 8192)
    [] OTHER                                  -> {}
=============================================================================
