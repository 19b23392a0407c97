------------------------------ MODULE Lockstep ------------------------------
(***************************************************************************)
(* One guest program run by the interpreter and by the three backends side *)
(* by side, an instruction at a time, as tools/jit_lockstep and the tests  *)
(* do at block ends with cpu_compare.c.  The program is one block; its end *)
(* is an interception point.                                               *)
(***************************************************************************)
EXTENDS BlockX64, BlockArm64, BlockWasm, Decode

CONSTANT Cases                \* programs, each with the state it starts in

\* A power of two is twice the one before it, for the bits of a dword and of the flag word.
ASSUME PowerAssumption ==
  Power(0) = 1 /\ \A n \in 0 .. Bits(4) + 3 : Power(n) \in Nat \ {0} /\ Power(n + 1) = 2 * Power(n)
\* The programs are decoded ones, at the start of the address space, and their states the CPU's.
ASSUME CasesAssumption ==
  \A case \in Cases :
    /\ DOMAIN case[1] = 1 .. Len(case[1]) /\ Len(case[1]) \in Nat /\ Len(case[1]) < Power(Bits(4))
    /\ \A i \in DOMAIN case[1] : Decoded(case[1][i])
    /\ case[2] \in Cpus /\ case[2].eip = 0 /\ case[2].st = "Ok"

VARIABLES prog, k, c,         \* the program, the instructions done, the interpreter's state
          x64, arm64, wasm    \* the blocks of the backends

vars == <<prog, k, c, x64, arm64, wasm>>

Init ==
  /\ k = 0
  /\ \E case \in Cases : prog = case[1] /\ c = case[2]
  /\ x64 = X64Enter(c, prog) /\ arm64 = ArmEnter(c, prog) /\ wasm = WasmEnter(c, prog)

\* One instruction, on every machine that is still in its block.
Step ==
  /\ k < Len(prog) /\ c.st = "Ok" /\ c.eip = k
  /\ c' = StepDecoded(c, prog[k + 1])
  /\ x64' = X64Step(x64, prog) /\ arm64' = ArmStep(arm64, prog) /\ wasm' = WasmStep(wasm, prog)
  /\ k' = k + 1
  /\ UNCHANGED prog

Next == Step

Spec == Init /\ [][Next]_vars

-----------------------------------------------------------------------------
\* diff_flags: the record's words and the flags derived from it; the carry-in byte only where a
\* kind reads it.
SameFlags(f, g) ==
  /\ \A field \in {"kind", "a", "b", "r", "w", "word"} : f[field] = g[field]
  /\ CarryInIsLive(f.kind) => f.carry_in = g.carry_in
  /\ Eflags(f) = Eflags(g)
\* x86p_cpu_diff.
SameGuest(d, e) ==
  /\ \A field \in {"reg", "mem", "df", "cs", "eip"} : d[field] = e[field]
  /\ SameFlags(d.flags, e.flags)
\* A block that goes on agrees in registers and memory; one that was left agrees in everything the
\* dispatcher goes on from, and tells it what the interpreter did.
Agrees(m) ==
  (m.n = k /\ k > 0) =>
    /\ \A field \in {"reg", "mem", "df", "cs"} : m.c[field] = c[field]
    /\ m.in => c.st = "Ok" /\ c.eip = k
    /\ ~m.in => SameGuest(m.c, c) /\ (m.exit = c.st \/ (m.exit \in {"BlockEnd", "Unsupported"} /\ c.st = "Ok"))

\* x86p_jit_translate of the x64 backend: whatever its register cache, its proven flag words and its
\* dropped flag writes hold, the block does what the interpreter does (tests/test_jit.c).
X64Agrees == Agrees(x64)
\* The ARM64 backend, which takes the last record's operands from the host registers it left them in.
Arm64Agrees == Agrees(arm64)
\* The WebAssembly backend, which computes conditions and carries from the record it knows the kind of.
WasmAgrees == Agrees(wasm)
=============================================================================
