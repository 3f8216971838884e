----------------------------- MODULE EmuContext -----------------------------
(***************************************************************************)
(* Whose registers a guest thread runs on (runtime/cpu_box86.cpp, cpu.cpp). *)
(* The cooperative scheduler gives every thread the one base emu and moves  *)
(* the state in and out of it at each slice; the native scheduler creates   *)
(* an emu per worker, and E() finds it through the runner's TLS - unless no *)
(* emu was ever created, when it does not even look.                        *)
(***************************************************************************)
EXTENDS Integers

CONSTANTS
    Main, Workers,      \* the guest threads
    Values,             \* what a register, the flags or the FPU may hold
    PowerOn             \* the FPU at power on, and the flags of a new thread


Threads == {Main} \cup Workers
Settled == -1            \* df = d_none: the flags word is current
NoEmu == "base"         \* t_emu = nullptr

ASSUME ContextAssumption ==
    /\ Values \subseteq Nat /\ PowerOn \in Values
    /\ Main \notin Workers /\ NoEmu \notin Workers

Emu == [gp : Values, flags : Values, lazy : Values \cup {Settled}, fpu : Values]
Context == [gp : Values, flags : Values, fpu : Values, fpuValid : BOOLEAN]

VARIABLES
    native,     \* the scheduler: an emu per worker, or one emu and slices
    multi,      \* g_multi_emu
    base,       \* emu_
    emus,       \* the emus of the workers, meaningful once created
    created,    \* the workers with an emu or, in slices, with a context
    bound,      \* t_emu of the host thread that runs a guest thread
    ctx,        \* the context of every thread
    started,    \* the threads that ran
    running,    \* the threads in guest code
    own         \* history: what each thread last had in its registers
vars == <<native, multi, base, emus, created, bound, ctx, started, running, own>>

Blank == [gp |-> PowerOn, flags |-> PowerOn, lazy |-> Settled, fpu |-> PowerOn]

\* E(): the base emu when no other was ever made, else the bound one.
Bound(t) == IF ~multi \/ bound[t] = NoEmu THEN NoEmu ELSE bound[t]
E(t) == IF Bound(t) = NoEmu THEN base ELSE emus[Bound(t)]
SetE(t, e) ==
    IF Bound(t) = NoEmu
      THEN base' = e /\ UNCHANGED emus
      ELSE emus' = [emus EXCEPT ![Bound(t)] = e] /\ UNCHANGED base

\* A fault: the flags word is read without running the deferred operation.
WordOnly(e) == e.flags

\* reg(R_EFLAGS): UpdateFlags runs the deferred operation first.
FlagsOf(e) == IF e.lazy = Settled THEN e.flags ELSE e.lazy
Updated(e) == [e EXCEPT !.flags = FlagsOf(e), !.lazy = Settled]

Seen(e) == [gp |-> e.gp, flags |-> IF e.lazy = Settled THEN e.flags ELSE e.lazy,
            fpu |-> e.fpu]

\* save_context: the registers, the flags and the FPU.
SavedFpu(e) == e.fpu
Saved(e) == [gp |-> e.gp, flags |-> FlagsOf(e), fpu |-> SavedFpu(e), fpuValid |-> TRUE]

\* A fault: the FPU of the last thread is left in the emu.
FpuStays(e, c) == e.fpu

\* load_context: an FPU that was never saved is inherited from the emu.
LoadedFpu(e, c) == IF c.fpuValid THEN c.fpu ELSE e.fpu
Loaded(e, c) == [gp |-> c.gp, flags |-> c.flags, lazy |-> Settled, fpu |-> LoadedFpu(e, c)]

-----------------------------------------------------------------------------
Init == /\ native \in BOOLEAN
        /\ multi = FALSE
        /\ base \in {[Blank EXCEPT !.fpu = v] : v \in Values}
        /\ emus = [t \in Workers |-> Blank]
        /\ created = {Main}
        /\ bound = [t \in Threads |-> NoEmu]
        /\ ctx = [t \in Threads |-> [gp |-> PowerOn, flags |-> PowerOn,
                                     fpu |-> PowerOn, fpuValid |-> FALSE]]
        /\ started = IF native THEN {Main} ELSE {}
        /\ running = IF native THEN {Main} ELSE {}
        /\ own = [t \in Threads |-> Seen(base)]

\* One operation of guest code: an instruction that computes its flags
\* later, one that writes them, one that moves data, one of the FPU.
Computed(e) ==
    {[e EXCEPT !.lazy = v] : v \in Values}
      \cup {[e EXCEPT !.flags = v, !.lazy = Settled] : v \in Values}
      \cup {[e EXCEPT !.gp = v] : v \in Values}
      \cup {[e EXCEPT !.fpu = v] : v \in Values}
Compute(t) ==
    /\ t \in running
    /\ \E e \in Computed(E(t)) :
         /\ SetE(t, e)
         /\ own' = [own EXCEPT ![t] = Seen(e)]
    /\ UNCHANGED <<native, multi, created, bound, ctx, started, running>>

\* The cooperative run_slice: load, seed a new thread, and later save.
BeginSlice(t) ==
    /\ ~native /\ running = {} /\ t \in created
    /\ LET e == Loaded(base, ctx[t])
       IN  /\ base' = e
           /\ own' = IF t \in started THEN own ELSE [own EXCEPT ![t] = Seen(e)]
    /\ started' = started \cup {t} /\ running' = {t}
    /\ UNCHANGED <<native, multi, emus, created, bound, ctx>>
EndSlice(t) ==
    /\ ~native /\ t \in running
    /\ SetE(t, Updated(E(t)))
    /\ ctx' = [ctx EXCEPT ![t] = Saved(E(t))]
    /\ running' = {}
    /\ UNCHANGED <<native, multi, created, bound, started, own>>

\* CreateThread: thread_emu_create raises the flag and hands the new emu the
\* FPU of the base emu as it is now.
Create(t) ==
    /\ running # {} /\ t \in Workers \ created
    /\ created' = created \cup {t}
    /\ IF native
         THEN /\ multi' = TRUE
              /\ emus' = [emus EXCEPT ![t] = [Blank EXCEPT !.fpu = base.fpu]]
         ELSE UNCHANGED <<native, multi, emus>>
    /\ UNCHANGED <<native, base, bound, ctx, started, running, own>>

\* seed_first_run: the flags of a new thread, current.
Seeded(e) == [e EXCEPT !.flags = PowerOn, !.lazy = Settled]

\* The runner binds the emu of its thread and seeds it.
StartRunner(t) ==
    /\ native /\ t \in created \ started
    /\ multi                                  \* thread_emu_bind aborts otherwise
    /\ bound' = [bound EXCEPT ![t] = t]
    /\ emus' = [emus EXCEPT ![t] = Seeded(@)]
    /\ own' = [own EXCEPT ![t] = Seen(emus'[t])]
    /\ started' = started \cup {t} /\ running' = running \cup {t}
    /\ UNCHANGED <<native, multi, base, created, ctx>>

\* A parked thread leaves a snapshot of its context and goes on from its emu.
Park(t) ==
    /\ native /\ t \in running
    /\ SetE(t, Updated(E(t)))
    /\ ctx' = [ctx EXCEPT ![t] = Saved(E(t))]
    /\ running' = running \ {t}
    /\ UNCHANGED <<native, multi, created, bound, started, own>>
Resume(t) ==
    /\ native /\ t \in started \ running
    /\ running' = running \cup {t}
    /\ UNCHANGED <<native, multi, base, emus, created, bound, ctx, started, own>>

Next == \E t \in Threads :
    \/ Compute(t) \/ BeginSlice(t) \/ EndSlice(t) \/ Create(t)
    \/ StartRunner(t) \/ Park(t) \/ Resume(t)

Spec == Init /\ [][Next]_vars

-----------------------------------------------------------------------------
TypeOK == /\ native \in BOOLEAN
          /\ multi \in BOOLEAN /\ base \in Emu /\ emus \in [Workers -> Emu]
          /\ created \subseteq Threads /\ started \subseteq created
          /\ running \subseteq started
          /\ bound \in [Threads -> Workers \cup {NoEmu}]
          /\ ctx \in [Threads -> Context]

\* A thread in guest code finds its registers, its flags and its FPU as it
\* left them, whichever threads ran in between and wherever each was cut;
\* and the snapshot of a parked thread is what it will go on with.
OwnState ==
    /\ \A t \in running : Seen(E(t)) = own[t]
    /\ \A t \in started \ running :
         own[t] = [gp |-> ctx[t].gp, flags |-> ctx[t].flags, fpu |-> ctx[t].fpu]

\* What guest_thread.h says of a thread that has not run: the backend "loads
\* its pristine power-on FPU state".
FirstFpuPristine ==
    [][\A t \in Workers : t \in started' \ started => own'[t].fpu = PowerOn]_vars
=============================================================================
