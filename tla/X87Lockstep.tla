----------------------------- MODULE X87Lockstep ------------------------------
(***************************************************************************)
(* One guest program with x87 instructions, run by the interpreter and by  *)
(* the three backends side by side.  The arithmetic differs between builds *)
(* (the host's 80-bit unit on x64, software elsewhere), so there are two   *)
(* interpreters: a backend is compared with the one of its own build.      *)
(***************************************************************************)
EXTENDS X87X64, X87Arm64, X87Wasm

CONSTANT X87Cases                 \* sets of programs, each with the states they start in

VARIABLES prog, k,                \* the program and the instructions done
          c, s,                   \* the interpreter of the host-FPU build, and of the software one
          x64, arm64, wasm        \* the blocks of the backends

vars == <<prog, k, c, s, x64, arm64, wasm>>

\* x87.h: the host-FPU build has no use for the double_arith switch.
OnHost(g) == [g EXCEPT !.f.host = TRUE, !.f.double = FALSE]
OnSoftware(g) == [g EXCEPT !.f.host = FALSE]

Init ==
  /\ k = 0
  /\ \E case \in X87Cases : \E p \in case[1], g \in case[2] : prog = p /\ c = OnHost(g) /\ s = OnSoftware(g)
  /\ x64 = X64Enter(c) /\ arm64 = ArmEnter(s) /\ wasm = WasmEnter(s)

\* One instruction, on every machine that is still in its block.
Step ==
  /\ k < Len(prog) /\ c.st = "Ok"
  /\ c' = X87Step(c, prog[k + 1]) /\ s' = X87Step(s, prog[k + 1])
  /\ x64' = X64Step(x64, prog) /\ arm64' = ArmStep(arm64, prog) /\ wasm' = WasmStep(wasm, prog)
  /\ k' = k + 1
  /\ UNCHANGED prog

Next == Step

Spec == Init /\ [][Next]_vars

-----------------------------------------------------------------------------
\* diff_x87: an empty register has no value to compare.
SameFpu(f, g) ==
  /\ \A field \in {"top", "full", "status", "control"} : f[field] = g[field]
  /\ \A p \in f.full : f.reg[p] = g.reg[p]
SameState(d, e) == SameFpu(d.f, e.f) /\ \A field \in {"mem", "ax", "flags"} : d[field] = e[field]
\* After the same instructions the block left the guest what the interpreter left, and stopped
\* where it stopped; mem is the guest state the block would write back here.
AgreesWith(m, mem, ref) ==
  (m.n = k /\ k > 0) =>
    /\ SameState(mem, ref)
    /\ m.in => ref.st = "Ok"
    /\ ~m.in => m.exit = ref.st \/ (m.exit \in {"BlockEnd", "Unsupported"} /\ ref.st = "Ok")
\* x87_op_census.h: an armed census misses no operation.
Counted(f, g) == f.census >= g.census

\* jit_x64_x87_inline.c: the mirror of the top of the stack, its evictions, its slow paths and the fault
\* stub that spills it leave what the interpreter leaves, and the census it is guarded by is exact.
X87X64Agrees == AgreesWith(x64, IF x64.in THEN Flush(x64).c ELSE x64.c, c) /\ (x64.n = k => x64.c.f.census = c.f.census)
\* jit_arm64_x87_inline.c: every guard of a fast path is asked before the first effect, and a value is
\* never rounded where the interpreter would have rounded it differently.
X87Arm64Agrees == AgreesWith(arm64, arm64.c, s) /\ (arm64.n = k => Counted(arm64.c.f, s.f))
\* jit_wasm_x87_*.c: the refused stack, operand or permission is what the helper, from the same state,
\* makes of it.
X87WasmAgrees == AgreesWith(wasm, wasm.c, s) /\ (wasm.n = k => Counted(wasm.c.f, s.f))
=============================================================================
