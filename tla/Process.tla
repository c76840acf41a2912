------------------------------ MODULE Process ------------------------------
(***************************************************************************)
(* The process component: the PCB pool, execute, halt, the PIT scheduler   *)
(* and the boot loop (syscall_handler.c, pit.c, kernel.c,                  *)
(* exception_handler.c).                                                   *)
(*                                                                         *)
(* There is one CPU.  Every IDT entry is an interrupt gate, so a handler   *)
(* starts with interrupts off and is atomic up to its sti().  Interrupts   *)
(* are on in the boot loop, in user mode, inside syscall_read, and between *)
(* the sti() and the iret that end syscall_execute.  Those four places are *)
(* the modes of the CPU below, and a timer tick may be taken in each.      *)
(*                                                                         *)
(* A kernel stack and a PCB share the 8 KB block get_pcb_ptr(pid), so a    *)
(* stack is named by its pid; the boot stack is the block of pid 0.        *)
(***************************************************************************)
EXTENDS Integers

CONSTANTS
  MAX_NUM_PROCESS,  \* the length of pcb_bitmap (6)
  TERM_NUM,         \* the length of term_arr (3)
  Status            \* the statuses programs halt with

ASSUME ProcessAssumption ==
  /\ MAX_NUM_PROCESS \in Nat \ {0}
  /\ TERM_NUM \in Nat \ {0, 1}
  /\ Status \subseteq 0..255

Pid == 0..(MAX_NUM_PROCESS - 1)
Tid == 0..(TERM_NUM - 1)
None == -1

VARIABLES
  cur_pid,       \* cur_pid; cur_pcb_ptr is always get_pcb_ptr(cur_pid)
  pcb_bitmap,    \* the pids i with pcb_bitmap[i] = 1
  parent_pid,    \* parent_pid of each PCB
  pcb_ctx,       \* esp and ebp of each PCB: which frame they point into
  pcb_esp0,      \* tss_esp0 of each PCB, as the stack it is the top of
  term_pid,      \* pid of each terminal_t
  running_term,  \* running_term_ptr->tid
  pg_addr,       \* pg_addr of page_dir_base[128 / 4], the user page
  tss_esp0,      \* tss.esp0, as the stack it is the top of
  cpu,           \* where the CPU is and, in the kernel, on which stack
  clobbered,     \* the live processes whose saved frame may be overwritten
  exec_ret       \* the last execute call that returned: why, and its EAX

vars == <<cur_pid, pcb_bitmap, parent_pid, pcb_ctx, pcb_esp0, term_pid,
          running_term, pg_addr, tss_esp0, cpu, clobbered, exec_ret>>

(***************************************************************************)
(* "iret" is the window between sti() and iret in syscall_execute.  "lost" *)
(* is a CPU whose esp was loaded from a frame that is not there or has     *)
(* been overwritten: what it executes next is undefined, and the model     *)
(* stops.                                                                  *)
(***************************************************************************)
Mode == {"boot", "user", "read", "iret", "lost"}
Stack == Pid \cup {None}
Cpu == [mode : Mode, stk : Stack, above : SUBSET Pid]
User == [mode |-> "user", stk |-> None, above |-> {}]
Lost == [mode |-> "lost", stk |-> None, above |-> {}]

(* A saved esp/ebp pair: the code it returns to, the stack it is on, and   *)
(* the processes whose saved frames are above it on that stack.            *)
Ctx == [at : {"unset", "user", "read", "iret", "execute"},
        stk : Stack, above : SUBSET Pid]

Return == [why : {"none", "missing", "full", "halt", "exception"}, eax : -1..256]

(* The type invariant: pids stay inside pcb_bitmap's bounds. *)
TypeOK ==
  /\ cur_pid \in Pid \cup {None}
  /\ pcb_bitmap \subseteq Pid
  /\ parent_pid \in [Pid -> Pid \cup {None}]
  /\ pcb_ctx \in [Pid -> Ctx]
  /\ pcb_esp0 \in [Pid -> Pid \cup {None}]
  /\ term_pid \in [Tid -> Pid \cup {None}]
  /\ running_term \in Tid
  /\ pg_addr \in 0..(MAX_NUM_PROCESS + 1) \cup {32}
  /\ tss_esp0 \in Pid \cup {None}
  /\ cpu \in Cpu
  /\ clobbered \subseteq Pid
  /\ exec_ret \in Return

(***************************************************************************)
(* The state entry() leaves when it reaches its last loop: no process,     *)
(* terminal 0 running, the user page not yet mapped (init_page_dir gives   *)
(* entry 32 its own index), the boot stack in use.                         *)
(***************************************************************************)
Init ==
  /\ cur_pid = None
  /\ pcb_bitmap = {}
  /\ parent_pid = [p \in Pid |-> None]
  /\ pcb_ctx = [p \in Pid |-> [at |-> "unset", stk |-> None, above |-> {}]]
  /\ pcb_esp0 = [p \in Pid |-> None]
  /\ term_pid = [t \in Tid |-> None]
  /\ running_term = 0
  /\ pg_addr = 32
  /\ tss_esp0 = 0
  /\ cpu = [mode |-> "boot", stk |-> 0, above |-> {}]
  /\ clobbered = {}
  /\ exec_ret = [why |-> "none", eax |-> 0]

-----------------------------------------------------------------------------
(* Helpers *)

(* Mutant: the scan runs one past the end of pcb_bitmap. *)
record_process_PastEnd(bitmap) ==
  IF 0..MAX_NUM_PROCESS \subseteq bitmap
    THEN None
    ELSE CHOOSE p \in (0..MAX_NUM_PROCESS) \ bitmap :
           \A q \in (0..MAX_NUM_PROCESS) \ bitmap : p <= q

(* The lowest free pid, or None. *)
record_process(bitmap) ==
  IF Pid \subseteq bitmap
    THEN None
    ELSE CHOOSE p \in Pid \ bitmap : \A q \in Pid \ bitmap : p <= q

(* Mutant: halt does not free the pid. *)
decord_process_Kept(bitmap, pid) == bitmap

decord_process(bitmap, pid) == bitmap \ {pid}

(* The 4 MB page setup_paging_and_flush_tlb(pid) maps at 128 MB. *)
UserPage(pid) == pid + 2

(* Mutant: terminal 0 is left out of the ring terminal_init builds. *)
next_term_to_run_Short(t) == IF t + 1 = TERM_NUM THEN 1 ELSE t + 1

next_term_to_run(t) == IF t + 1 = TERM_NUM THEN 0 ELSE t + 1

(* The stack a handler entered now runs on. *)
KernelStack == IF cpu.mode = "user" THEN tss_esp0 ELSE cpu.stk

(* The frame a handler that runs now saves in a PCB. *)
Frame(at) == [at |-> at, stk |-> KernelStack, above |-> cpu.above]

(***************************************************************************)
(* schedule() returns through the frame in pid's PCB, which has to be one  *)
(* that schedule() saved and nothing has overwritten.                      *)
(***************************************************************************)
Resume(pid, ctx) ==
  IF pid \in clobbered \/ ctx.at \notin {"user", "read", "iret"}
    THEN Lost
    ELSE IF ctx.at = "user"
           THEN User
           ELSE [mode |-> ctx.at, stk |-> ctx.stk, above |-> ctx.above]

(***************************************************************************)
(* syscall_execute of a program that exists, once a pid is available.      *)
(* The parameters are what its callers have already changed: the bitmap,   *)
(* the saved contexts, and the processes with a frame on this stack.       *)
(***************************************************************************)
StartProgram(bitmap, parent, ctx, esp0, above) ==
  LET new == record_process(bitmap)
  IN  /\ new # None
      /\ pcb_bitmap' = bitmap \cup {new}
      /\ pg_addr' = UserPage(new)
      /\ parent_pid' = [parent_pid EXCEPT ![new] = parent]
      /\ pcb_esp0' = [esp0 EXCEPT ![new] = new]
      /\ pcb_ctx' = ctx
      /\ cur_pid' = new
      /\ tss_esp0' = new
      /\ cpu' = [mode |-> "iret", stk |-> KernelStack, above |-> above]

-----------------------------------------------------------------------------
(* System calls of the running process *)

(* A program that is missing, is not an ELF file, or a NULL command. *)
ExecuteNoProgram ==
  /\ cpu.mode = "user"
  /\ exec_ret' = [why |-> "missing", eax |-> -1]
  /\ UNCHANGED <<cur_pid, pcb_bitmap, parent_pid, pcb_ctx, pcb_esp0, term_pid,
                 running_term, pg_addr, tss_esp0, cpu>>

(* "Reach maximal number of programs!" *)
ExecuteFull ==
  /\ cpu.mode = "user"
  /\ record_process(pcb_bitmap) = None
  /\ exec_ret' = [why |-> "full", eax |-> 0]
  /\ UNCHANGED <<cur_pid, pcb_bitmap, parent_pid, pcb_ctx, pcb_esp0, term_pid,
                 running_term, pg_addr, tss_esp0, cpu>>

(* Mutant: the caller's esp and ebp are not saved. *)
CallerCtx_Unsaved == pcb_ctx

(* execute saves the caller's esp and ebp in its PCB. *)
CallerCtx == [pcb_ctx EXCEPT ![cur_pid] = Frame("execute")]

Execute ==
  /\ cpu.mode = "user"
  /\ StartProgram(pcb_bitmap, cur_pid, CallerCtx, pcb_esp0, {cur_pid})
  /\ UNCHANGED <<term_pid, running_term, exec_ret>>

(* The iret that ends syscall_execute. *)
Iret ==
  /\ cpu.mode = "iret"
  /\ cpu' = User
  /\ UNCHANGED <<cur_pid, pcb_bitmap, parent_pid, pcb_ctx, pcb_esp0, term_pid,
                 running_term, pg_addr, tss_esp0, exec_ret>>

(* syscall_read turns interrupts on and returns some time later. *)
ReadBegin ==
  /\ cpu.mode = "user"
  /\ cpu' = [mode |-> "read", stk |-> KernelStack, above |-> {}]
  /\ UNCHANGED <<cur_pid, pcb_bitmap, parent_pid, pcb_ctx, pcb_esp0, term_pid,
                 running_term, pg_addr, tss_esp0, exec_ret>>

ReadReturn ==
  /\ cpu.mode = "read"
  /\ cpu' = User
  /\ UNCHANGED <<cur_pid, pcb_bitmap, parent_pid, pcb_ctx, pcb_esp0, term_pid,
                 running_term, pg_addr, tss_esp0, exec_ret>>

(* halt of a base shell: execute("shell") in its place. *)
HaltBase ==
  /\ parent_pid[cur_pid] = None
  /\ StartProgram(decord_process(pcb_bitmap, cur_pid), None, pcb_ctx, pcb_esp0, {})
  /\ UNCHANGED <<term_pid, running_term, exec_ret>>

(* Mutant: tss.esp0 stays the child's. *)
RestoreParent_KeepsEsp0(parent) ==
  /\ tss_esp0' = tss_esp0
  /\ pg_addr' = UserPage(parent)
  /\ cur_pid' = parent

(* Mutant: the child's page stays mapped. *)
RestoreParent_KeepsPage(parent) ==
  /\ tss_esp0' = pcb_esp0[parent]
  /\ pg_addr' = pg_addr
  /\ cur_pid' = parent

RestoreParent(parent) ==
  /\ tss_esp0' = pcb_esp0[parent]
  /\ pg_addr' = UserPage(parent)
  /\ cur_pid' = parent

(* halt of any other process: return from the parent's syscall_execute. *)
HaltChild(status, why) ==
  LET parent == parent_pid[cur_pid]
  IN  /\ parent # None
      /\ pcb_bitmap' = decord_process(pcb_bitmap, cur_pid)
      /\ RestoreParent(parent)
      /\ exec_ret' = [why |-> why, eax |-> IF status = 255 THEN 256 ELSE status]
      /\ cpu' = IF pcb_ctx[parent].at = "execute" /\ parent \notin clobbered
                  THEN User ELSE Lost
      /\ UNCHANGED <<parent_pid, pcb_ctx, pcb_esp0, term_pid, running_term>>

syscall_halt(status, why) == HaltBase \/ HaltChild(status, why)

Halt ==
  /\ cpu.mode = "user"
  /\ \E status \in Status : syscall_halt(status, "halt")

(* An exception in user mode or, on a bad buffer, inside syscall_read. *)
Exception ==
  /\ cpu.mode \in {"user", "read"}
  /\ syscall_halt(255, "exception")

-----------------------------------------------------------------------------
(* The timer *)

(* Mutant: schedule() does not save the esp and ebp of the process. *)
SavedCtx_Unsaved == pcb_ctx

(* What schedule() saves in the PCB of the process it leaves, *)
SavedCtx ==
  IF cur_pid = None
    THEN pcb_ctx
    ELSE [pcb_ctx EXCEPT ![cur_pid] = Frame(cpu.mode)]

SavedEsp0 ==
  IF cur_pid = None THEN pcb_esp0 ELSE [pcb_esp0 EXCEPT ![cur_pid] = tss_esp0]

(* Mutant: schedule() does not save the pid. *)
SavedTermPid_Unsaved == term_pid

(* and in the terminal it leaves. *)
SavedTermPid == [term_pid EXCEPT ![running_term] = cur_pid]

(* schedule() to a terminal that has a process. *)
SwitchTo(next) ==
  LET pid == SavedTermPid[next]
  IN  /\ pid # None
      /\ cur_pid' = pid
      /\ pg_addr' = UserPage(pid)
      /\ tss_esp0' = SavedEsp0[pid]
      /\ cpu' = Resume(pid, SavedCtx[pid])
      /\ pcb_ctx' = SavedCtx
      /\ pcb_esp0' = SavedEsp0
      /\ UNCHANGED <<pcb_bitmap, parent_pid>>

(* schedule() to a terminal that has none, with a pid for its base shell. *)
LaunchBaseShell(next) ==
  /\ SavedTermPid[next] = None
  /\ StartProgram(pcb_bitmap, None, SavedCtx, SavedEsp0,
                  cpu.above \cup ({cur_pid} \ {None}))

(***************************************************************************)
(* The same with no pid left.  execute returns, "This should not be        *)
(* printed!" is printed, and schedule() goes on with pid -1: it maps page  *)
(* 1 and loads esp0 and esp from a PCB that does not exist.                *)
(***************************************************************************)
LaunchFails(next) ==
  /\ SavedTermPid[next] = None
  /\ record_process(pcb_bitmap) = None
  /\ cur_pid' = None
  /\ pg_addr' = UserPage(None)
  /\ tss_esp0' = None
  /\ cpu' = Lost
  /\ pcb_ctx' = SavedCtx
  /\ pcb_esp0' = SavedEsp0
  /\ UNCHANGED <<pcb_bitmap, parent_pid>>

schedule ==
  LET next == next_term_to_run(running_term)
  IN  /\ term_pid' = SavedTermPid
      /\ running_term' = next
      /\ \/ SwitchTo(next)
         \/ LaunchBaseShell(next)
         \/ LaunchFails(next)
      /\ UNCHANGED exec_ret

Tick ==
  /\ cpu.mode # "lost"
  /\ schedule

-----------------------------------------------------------------------------
(***************************************************************************)
(* Handlers push onto the stack the CPU is on: a frame that was saved on   *)
(* it, and is not above the CPU, may be overwritten.                       *)
(***************************************************************************)
Clobber ==
  clobbered' = {q \in pcb_bitmap' \ {cur_pid'} :
                  \/ q \in clobbered
                  \/ pcb_ctx'[q].stk = KernelStack' /\ q \notin cpu'.above}

Step ==
  \/ ExecuteNoProgram
  \/ ExecuteFull
  \/ Execute
  \/ Iret
  \/ ReadBegin
  \/ ReadReturn
  \/ Halt
  \/ Exception
  \/ Tick

Next == Step /\ Clobber

Spec == Init /\ [][Next]_vars

(***************************************************************************)
(* The PIT fires at 100 Hz for ever and interrupts are never off for good. *)
(***************************************************************************)
FairSpec == Spec /\ WF_vars(Tick /\ Clobber)

-----------------------------------------------------------------------------
(* Properties *)

(* The process a terminal would run: the running terminal's is cur_pid. *)
Leaf(t) == IF t = running_term THEN cur_pid ELSE term_pid[t]

Children(p) == {q \in pcb_bitmap : parent_pid[q] = p}

(***************************************************************************)
(* No pid is leaked and none is shared: every live process is either the   *)
(* process of exactly one terminal, or waits in execute for exactly one    *)
(* live child; a terminal's process and a parent are live.  Execute, halt  *)
(* and schedule each move a pid between pcb_bitmap, cur_pid, parent_pid    *)
(* and term_arr[].pid with nothing that ties the four together.            *)
(***************************************************************************)
ProcessesThreaded ==
  cpu.mode # "lost" =>
    /\ \A t \in Tid : Leaf(t) \in pcb_bitmap \cup {None}
    /\ \A p \in pcb_bitmap : parent_pid[p] \in pcb_bitmap \cup {None}
    /\ \A p \in pcb_bitmap :
         \/ /\ Children(p) = {}
            /\ \E t \in Tid : \A u \in Tid : (Leaf(u) = p) <=> (u = t)
         \/ /\ \E q \in pcb_bitmap : Children(p) = {q}
            /\ \A t \in Tid : Leaf(t) # p

(***************************************************************************)
(* esp and ebp of a PCB are written by both execute and schedule, and read *)
(* by both halt and schedule.  A live process that waits for a child has   *)
(* execute's frame there, a process that waits for its turn has            *)
(* schedule's, and the frame is on the process's own kernel stack unless   *)
(* the tick fell between execute's sti and iret.                           *)
(***************************************************************************)
SavedFrames ==
  cpu.mode # "lost" =>
    /\ \A p \in pcb_bitmap :
         Children(p) # {} => pcb_ctx[p].at = "execute" /\ pcb_ctx[p].stk = p
    /\ \A t \in Tid \ {running_term} :
         LET p == term_pid[t]
         IN  p # None =>
               /\ pcb_ctx[p].at \in {"user", "read", "iret"}
               /\ pcb_ctx[p].at \in {"user", "read"} => pcb_ctx[p].stk = p

(***************************************************************************)
(* Whenever a process runs, the registers that execute, halt and schedule  *)
(* set one by one agree on it: it is live, its own 4 MB page is mapped,    *)
(* and tss.esp0 is its own kernel stack.                                   *)
(***************************************************************************)
MachineFollowsProcess ==
  cpu.mode \in {"user", "read", "iret"} =>
    /\ cur_pid \in pcb_bitmap
    /\ pg_addr = UserPage(cur_pid)
    /\ tss_esp0 = cur_pid
    /\ cpu.mode = "read" => cpu.stk = cur_pid

(***************************************************************************)
(* Once schedule has given a terminal a base shell the terminal has a      *)
(* process for ever: halt replaces a base shell before anything can run.   *)
(***************************************************************************)
TerminalKeepsProcess ==
  [][\A t \in Tid : Leaf(t) # None => Leaf(t)' # None]_vars

(***************************************************************************)
(* The frame of a process that waits is overwritten in one case only: it   *)
(* is a base shell and the tick that suspended it fell between the sti and *)
(* the iret of its launch.  A child launched on its parent's stack is safe *)
(* there, and so is the parent.                                            *)
(***************************************************************************)
OnlyLaunchesClobbered ==
  cpu.mode # "lost" =>
    \A p \in clobbered :
      parent_pid[p] = None /\ pcb_ctx[p].at = "iret"

(***************************************************************************)
(* The CPU is lost in two ways only: schedule returns to a base shell of   *)
(* that kind, or comes to a terminal that never had a process when every   *)
(* pid is taken.  No halt and no switch restores a frame that is not there *)
(* or that the other of execute and schedule saved.                        *)
(***************************************************************************)
LostOnlyAtLaunch ==
  [][cpu'.mode = "lost" =>
       \/ cpu.mode = "lost"
       \/ Leaf(next_term_to_run(running_term)) \in clobbered
       \/ /\ pcb_bitmap = Pid
          /\ Leaf(next_term_to_run(running_term)) = None]_vars

(***************************************************************************)
(* Round robin starves nobody: every terminal gets a process and the CPU   *)
(* over and over, unless the CPU is lost.                                  *)
(***************************************************************************)
EveryTerminalRuns ==
  \A t \in Tid :
    []<>(cpu.mode = "lost" \/ (running_term = t /\ cur_pid # None))
=============================================================================
