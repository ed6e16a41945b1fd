------------------------------ MODULE PContext ------------------------------
(***************************************************************************)
(* The user-interrupt machinery of uintr.h / uintr.cc: every worker thread *)
(* owns two transaction contexts, the main one and the preemptive one, and *)
(* its core runs one of them.  The state of a core is                      *)
(*                                                                         *)
(*   uif, upid     the user-interrupt flag and the posted-interrupt bit    *)
(*   curr_ctx      which context the core runs (also its fs/gs base, hence *)
(*                 the thread_local variables it sees)                     *)
(*   regs, fpu     the live general registers (program counter and locals) *)
(*                 and the context whose vector registers are live         *)
(*   rsp           per context, the frame its reg[0] points to             *)
(*   xsave_area    per context, whose vector registers were last saved     *)
(*   new_context   the preemptive context that was never entered           *)
(*   lock_counter  per context, the thread_local preemption lock           *)
(*   in_swap       the core is between stui and jmp of swap_context        *)
(*                                                                         *)
(* A frame is opaque here; Worker.tla gives it a meaning.  The handler     *)
(* runs with UIF clear, so each of its runs is one step.                   *)
(***************************************************************************)
EXTENDS Naturals

CONSTANT Worker

VARIABLES uif, upid, curr_ctx, regs, fpu, rsp, xsave_area, new_context,
          lock_counter, in_swap

pcontext_vars == <<uif, upid, curr_ctx, regs, fpu, rsp, xsave_area,
                   new_context, lock_counter, in_swap>>

Main == "main"
Preemptive == "preemptive"
Context == {Main, Preemptive}

\* Whose vector registers a core or a save area holds.
Owner == Context \cup {"unsaved"}

\* start[c] is the frame context c begins with: MyWork itself, and the frame
\* that init_stack fabricates for the preemptive context.
PContextInit(start) ==
    /\ uif = [w \in Worker |-> FALSE]
    /\ upid = [w \in Worker |-> FALSE]
    /\ curr_ctx = [w \in Worker |-> Main]
    /\ regs = [w \in Worker |-> start[Main]]
    /\ fpu = [w \in Worker |-> Main]
    /\ rsp = [w \in Worker |-> start]
    /\ xsave_area = [w \in Worker |-> [c \in Context |-> "unsaved"]]
    /\ new_context = [w \in Worker |-> TRUE]
    /\ lock_counter = [w \in Worker |-> [c \in Context |-> 0]]
    /\ in_swap = [w \in Worker |-> FALSE]

PContextTypeOK(Frame) ==
    /\ uif \in [Worker -> BOOLEAN]
    /\ upid \in [Worker -> BOOLEAN]
    /\ curr_ctx \in [Worker -> Context]
    /\ regs \in [Worker -> Frame]
    /\ fpu \in [Worker -> Owner]
    /\ rsp \in [Worker -> [Context -> Frame]]
    /\ xsave_area \in [Worker -> [Context -> Owner]]
    /\ new_context \in [Worker -> BOOLEAN]
    /\ lock_counter \in [Worker -> [Context -> Nat]]
    /\ in_swap \in [Worker -> BOOLEAN]
-----------------------------------------------------------------------------
locked(w) == lock_counter[w][curr_ctx[w]] > 0

lock(w) ==
    lock_counter' = [lock_counter EXCEPT ![w][curr_ctx[w]] = @ + 1]

\* Mutant: unlock forgets that locks nest.
unlock_all(w) ==
    lock_counter' = [lock_counter EXCEPT ![w][curr_ctx[w]] = 0]

unlock(w) ==
    lock_counter' = [lock_counter EXCEPT ![w][curr_ctx[w]] = @ - 1]

\* Mutants: the context is changed before SetRSP; the xsave is left out.
Switch_before_save(w, to, saved) ==
    LET frames == [rsp[w] EXCEPT ![to] = saved]
    IN  /\ rsp' = [rsp EXCEPT ![w] = frames]
        /\ curr_ctx' = [curr_ctx EXCEPT ![w] = to]
        /\ regs' = [regs EXCEPT ![w] = frames[to]]
        /\ UNCHANGED <<fpu, xsave_area, new_context>>

Switch_no_xsave(w, to, saved) ==
    LET frames == [rsp[w] EXCEPT ![curr_ctx[w]] = saved]
        fresh == to = Preemptive /\ new_context[w]
    IN  /\ rsp' = [rsp EXCEPT ![w] = frames]
        /\ curr_ctx' = [curr_ctx EXCEPT ![w] = to]
        /\ regs' = [regs EXCEPT ![w] = frames[to]]
        /\ fpu' = [fpu EXCEPT ![w] = IF fresh THEN @ ELSE xsave_area[w][to]]
        /\ new_context' = [new_context EXCEPT ![w] = @ /\ ~fresh]
        /\ UNCHANGED xsave_area

\* The core stops running its context, whose frame is `saved', and runs `to'.
\* The first xrstor of a new context restores nothing.
Switch(w, to, saved) ==
    LET from == curr_ctx[w]
        areas == [xsave_area[w] EXCEPT ![from] = fpu[w]]
        frames == [rsp[w] EXCEPT ![from] = saved]
        fresh == to = Preemptive /\ new_context[w]
    IN  /\ rsp' = [rsp EXCEPT ![w] = frames]
        /\ xsave_area' = [xsave_area EXCEPT ![w] = areas]
        /\ curr_ctx' = [curr_ctx EXCEPT ![w] = to]
        /\ regs' = [regs EXCEPT ![w] = frames[to]]
        /\ fpu' = [fpu EXCEPT ![w] = IF fresh THEN @ ELSE areas[to]]
        /\ new_context' = [new_context EXCEPT ![w] = @ /\ ~fresh]

senduipi(w) ==
    upid' = [upid EXCEPT ![w] = TRUE]

\* A posted interrupt is recognised at an instruction boundary when UIF is set.
Delivered(w) ==
    /\ uif[w]
    /\ upid[w]
    /\ upid' = [upid EXCEPT ![w] = FALSE]

\* Mutant: the handler does not ask whether preemption is locked.
Deferred_unlocked(w) == in_swap[w]

\* An interrupt inside swap_context, or while the context has locked
\* preemption, is consumed without effect.
Deferred(w) == in_swap[w] \/ locked(w)

handler_return(w) ==
    /\ Delivered(w)
    /\ Deferred(w)
    /\ UNCHANGED <<uif, curr_ctx, regs, fpu, rsp, xsave_area, new_context,
                   lock_counter, in_swap>>

handler_helper(w) ==
    /\ Delivered(w)
    /\ ~Deferred(w)
    /\ Switch(w, Preemptive, regs[w])
    /\ UNCHANGED <<uif, lock_counter, in_swap>>

\* swap_context up to and including its stui; `saved' is the caller's frame at
\* the return address.
swap_context(w, to, saved) ==
    /\ Switch(w, to, saved)
    /\ uif' = [uif EXCEPT ![w] = TRUE]
    /\ in_swap' = [in_swap EXCEPT ![w] = TRUE]
    /\ UNCHANGED <<upid, lock_counter>>

swap_jmp(w) ==
    /\ in_swap[w]
    /\ in_swap' = [in_swap EXCEPT ![w] = FALSE]
    /\ UNCHANGED <<uif, upid, curr_ctx, regs, fpu, rsp, xsave_area,
                   new_context, lock_counter>>

\* One instruction sequence of the running context, ending in frame f.  The
\* caller says what becomes of uif and lock_counter.
Execute(w, f) ==
    /\ ~in_swap[w]
    /\ regs' = [regs EXCEPT ![w] = f]
    /\ fpu' = [fpu EXCEPT ![w] = curr_ctx[w]]
    /\ UNCHANGED <<upid, curr_ctx, rsp, xsave_area, new_context, in_swap>>
=============================================================================
