-------------------------- MODULE ProcessInvariant ---------------------------
(***************************************************************************)
(* The inductive invariant of module Process, for every number of pids and *)
(* of terminals, and the lemmas the proofs about its steps share.          *)
(*                                                                         *)
(* None of the safety properties is inductive alone.  The strengthening    *)
(* IInv has four parts: the process tree, the machine registers, the saved *)
(* frames, and which frames share a stack.                                 *)
(***************************************************************************)
EXTENDS Process, TLAPS, WellFoundedInduction

Tree ==
  /\ \A t \in Tid : Leaf(t) \in pcb_bitmap \cup {None}
  /\ \A p \in pcb_bitmap : parent_pid[p] \in pcb_bitmap \cup {None}
  /\ \A p, q \in pcb_bitmap :
       parent_pid[p] = parent_pid[q] /\ parent_pid[p] # None => p = q
  /\ \A t, u \in Tid : Leaf(t) = Leaf(u) /\ Leaf(t) # None => t = u
  /\ \A t \in Tid, p \in pcb_bitmap : Leaf(t) # None => parent_pid[p] # Leaf(t)
  /\ \A p \in pcb_bitmap :
       (\E t \in Tid : Leaf(t) = p) \/ (\E q \in pcb_bitmap : parent_pid[q] = p)

(* A child in its launch window is on its parent's stack, under its frame. *)
Machine ==
  /\ (cur_pid = None) <=> (cpu.mode = "boot")
  /\ cpu.mode = "boot" => pcb_bitmap = {} /\ cpu.above = {}
  /\ cpu.mode # "boot" => pg_addr = UserPage(cur_pid) /\ tss_esp0 = cur_pid
  /\ cpu.mode \in {"user", "read"} => cpu.above = {}
  /\ cpu.mode = "read" => cpu.stk = cur_pid
  /\ cpu.mode = "iret" /\ parent_pid[cur_pid] # None =>
       cpu.stk = parent_pid[cur_pid] /\ cpu.above = {parent_pid[cur_pid]}

(* The frame of a process whose terminal waits for its turn. *)
Parked(p) ==
  /\ pcb_ctx[p].at \in {"user", "read", "iret"}
  /\ pcb_ctx[p].at \in {"user", "read"} => pcb_ctx[p].stk = p /\ pcb_ctx[p].above = {}
  /\ pcb_ctx[p].at = "iret" /\ parent_pid[p] # None =>
       pcb_ctx[p].stk = parent_pid[p] /\ pcb_ctx[p].above = {parent_pid[p]}

Frames ==
  /\ \A p \in pcb_bitmap : pcb_esp0[p] = p
  /\ \A q \in pcb_bitmap :
       LET p == parent_pid[q]
       IN  p # None => pcb_ctx[p].at = "execute" /\ pcb_ctx[p].stk = p
  /\ \A t \in Tid \ {running_term} : term_pid[t] # None => Parked(term_pid[t])

Launching(p) == parent_pid[p] = None /\ pcb_ctx[p].at = "iret"

(* The frames that a process going on from stack s below the frames in     *)
(* above would overwrite.                                                  *)
Below(p, s, above) ==
  {q \in pcb_bitmap \ {cur_pid, p} : pcb_ctx[q].stk = s /\ q \notin above}

Stacks ==
  /\ clobbered \subseteq pcb_bitmap \ {cur_pid}
  /\ \A p \in clobbered : Launching(p)
  /\ Below(cur_pid, KernelStack, cpu.above) \subseteq clobbered
  /\ \A t \in Tid \ {running_term} :
       LET p == term_pid[t]
       IN  p # None /\ p \notin clobbered /\ pcb_ctx[p].at = "iret" =>
             \A q \in Below(p, pcb_ctx[p].stk, pcb_ctx[p].above) : Launching(q)

IInv == TypeOK /\ (cpu.mode # "lost" => Tree /\ Machine /\ Frames /\ Stacks)
-----------------------------------------------------------------------------
(* Lemmas about the helpers *)

(* A nonempty set of pids has a least element, so record_process finds it. *)
LEMMA LeastPid ==
  ASSUME NEW S, S \subseteq Pid, S # {}
  PROVE  \E p \in S : \A q \in S : p <= q
<1> DEFINE R == {e \in Nat \X Nat : e[1] < e[2]}
<1>1. S \subseteq Nat
  BY ProcessAssumption DEF Pid
<1>2. IsWellFoundedOn(R, Nat)
  BY NatLessThanWellFounded DEF OpToRel
<1>3. PICK p \in S : \A q \in S : ~(<<q, p>> \in R)
  <2> HIDE DEF R
  <2> QED  BY <1>1, <1>2, WFMin, Zenon
<1>4. ASSUME NEW q \in S PROVE p <= q
  <2>1. p \in Nat /\ q \in Nat
    BY <1>1
  <2>2. q < p => <<q, p>> \in R
    BY <2>1
  <2> QED  BY <1>3, <2>1, <2>2
<1> QED  BY <1>4

(* None is not a pid, and the boot stack is that of a pid. *)
LEMMA PidFacts == None \notin Pid /\ 0 \in Pid /\ 0 \in Tid
BY ProcessAssumption DEF Pid, Tid, None

(* record_process returns a free pid, or None when there is none. *)
LEMMA RecordProcess ==
  ASSUME NEW bitmap, bitmap \subseteq Pid
  PROVE  /\ record_process(bitmap) # None => record_process(bitmap) \in Pid \ bitmap
         /\ record_process(bitmap) = None => bitmap = Pid
<1>1. CASE Pid \subseteq bitmap
  BY <1>1 DEF record_process
<1>2. CASE ~(Pid \subseteq bitmap)
  <2>1. \E p \in Pid \ bitmap : \A q \in Pid \ bitmap : p <= q
    BY <1>2, LeastPid, Zenon
  <2>2. record_process(bitmap) \in Pid \ bitmap
    BY <1>2, <2>1 DEF record_process
  <2> QED  BY <2>2, PidFacts
<1> QED  BY <1>1, <1>2

(* The ring terminal_init builds leads to another terminal. *)
LEMMA NextTerm ==
  ASSUME NEW t \in Tid
  PROVE  next_term_to_run(t) \in Tid /\ next_term_to_run(t) # t
BY ProcessAssumption DEF next_term_to_run, Tid

-----------------------------------------------------------------------------
(* Types *)

LEMMA FrameType ==
  ASSUME TypeOK, NEW at \in {"user", "read", "iret", "execute"}
  PROVE  KernelStack \in Stack /\ Frame(at) \in Ctx
BY DEF TypeOK, Cpu, Stack, KernelStack, Frame, Ctx

LEMMA SavedType ==
  ASSUME TypeOK, cur_pid # None => cpu.mode \in {"user", "read", "iret"}
  PROVE  /\ SavedCtx \in [Pid -> Ctx]
         /\ SavedEsp0 \in [Pid -> Stack]
         /\ SavedTermPid \in [Tid -> Stack]
<1>1. cur_pid # None => Frame(cpu.mode) \in Ctx
  BY FrameType
<1> QED  BY <1>1 DEF TypeOK, SavedCtx, SavedEsp0, SavedTermPid, Stack

LEMMA StartProgramType ==
  ASSUME TypeOK, NEW bitmap, bitmap \subseteq Pid, NEW parent \in Stack,
         NEW ctx \in [Pid -> Ctx], NEW esp0 \in [Pid -> Stack],
         NEW above \in SUBSET Pid,
         StartProgram(bitmap, parent, ctx, esp0, above)
  PROVE  /\ cur_pid' \in Pid /\ cur_pid' \notin bitmap
         /\ pcb_bitmap' = bitmap \cup {cur_pid'}
         /\ parent_pid' = [parent_pid EXCEPT ![cur_pid'] = parent]
         /\ parent_pid' \in [Pid -> Stack]
         /\ pcb_ctx' = ctx
         /\ pcb_esp0' = [esp0 EXCEPT ![cur_pid'] = cur_pid']
         /\ pcb_esp0' \in [Pid -> Stack]
         /\ pg_addr' = UserPage(cur_pid') /\ pg_addr' \in 2..(MAX_NUM_PROCESS + 1)
         /\ tss_esp0' = cur_pid'
         /\ cpu' = [mode |-> "iret", stk |-> KernelStack, above |-> above]
         /\ cpu' \in Cpu
<1>1. cur_pid' \in Pid \ bitmap
  BY RecordProcess DEF StartProgram
<1>2. KernelStack \in Stack
  BY FrameType
<1>3. pg_addr' \in 2..(MAX_NUM_PROCESS + 1)
  BY <1>1, ProcessAssumption DEF StartProgram, UserPage, Pid
<1> QED  BY <1>1, <1>2, <1>3 DEF StartProgram, TypeOK, Stack, Cpu, Mode

LEMMA StartProgramKeepsTypes ==
  ASSUME TypeOK, NEW bitmap, bitmap \subseteq Pid, NEW parent \in Stack,
         NEW ctx \in [Pid -> Ctx], NEW esp0 \in [Pid -> Stack],
         NEW above \in SUBSET Pid,
         StartProgram(bitmap, parent, ctx, esp0, above),
         UNCHANGED exec_ret, clobbered' \subseteq pcb_bitmap',
         term_pid' \in [Tid -> Stack], running_term' \in Tid
  PROVE  TypeOK'
<1>1. /\ cur_pid' \in Pid
      /\ pcb_bitmap' = bitmap \cup {cur_pid'}
      /\ parent_pid' \in [Pid -> Stack]
      /\ pcb_ctx' = ctx
      /\ pcb_esp0' \in [Pid -> Stack]
      /\ pg_addr' \in 2..(MAX_NUM_PROCESS + 1)
      /\ tss_esp0' = cur_pid'
      /\ cpu' \in Cpu
  BY StartProgramType, Zenon
<1> QED  BY <1>1, ProcessAssumption DEF TypeOK, Stack

LEMMA UserPageType ==
  ASSUME NEW p \in Pid \cup {None}
  PROVE  UserPage(p) \in 0..(MAX_NUM_PROCESS + 1)
BY ProcessAssumption DEF UserPage, Pid, None

LEMMA ResumeType ==
  ASSUME NEW p, NEW ctx \in Ctx
  PROVE  Resume(p, ctx) \in Cpu
BY DEF Resume, Ctx, Cpu, Mode, Stack, User, Lost

(* Every step keeps the types.                                             *)
LEMMA TypeNext ==
  ASSUME IInv, Next
  PROVE  TypeOK'
<1>1. TypeOK /\ Step /\ clobbered' \subseteq pcb_bitmap'
  BY DEF IInv, Next, Clobber
<1>2. cpu.mode # "lost"
  BY <1>1, Zenon DEF Step, ExecuteNoProgram, ExecuteFull, Execute, Iret, ReadBegin,
     ReadReturn, Halt, Exception, Tick
<1>3. Tree /\ Machine /\ Frames /\ Stacks
  BY <1>2 DEF IInv
<1>4. User \in Cpu /\ Lost \in Cpu
  BY DEF User, Lost, Cpu, Mode, Stack
<1>5. CASE ExecuteNoProgram
  BY <1>1, <1>5 DEF TypeOK, Stack, ExecuteNoProgram, Return
<1>6. CASE ExecuteFull
  BY <1>1, <1>6 DEF TypeOK, Stack, ExecuteFull, Return
<1>7. CASE Execute
  <2>1. cur_pid \in Pid
    BY <1>1, <1>3, <1>7 DEF TypeOK, Stack, Machine, Execute
  <2>2. CallerCtx \in [Pid -> Ctx]
    BY <1>1, FrameType, Zenon DEF CallerCtx, TypeOK
  <2>3. StartProgram(pcb_bitmap, cur_pid, CallerCtx, pcb_esp0, {cur_pid})
    BY <1>7 DEF Execute
  <2>4. UNCHANGED <<term_pid, running_term, exec_ret>>
    BY <1>7 DEF Execute
  <2>5. /\ pcb_bitmap \subseteq Pid /\ pcb_esp0 \in [Pid -> Stack] /\ {cur_pid} \in SUBSET Pid
        /\ term_pid' \in [Tid -> Stack] /\ running_term' \in Tid /\ cur_pid \in Stack
    BY <1>1, <2>1, <2>4 DEF TypeOK, Stack
  <2> QED  BY <1>1, <2>2, <2>3, <2>4, <2>5, StartProgramKeepsTypes
<1>8. CASE Iret
  BY <1>1, <1>4, <1>8 DEF TypeOK, Stack, Iret
<1>9. CASE ReadBegin
  <2>1. KernelStack \in Pid \cup {None}
    BY <1>1, FrameType DEF Stack
  <2> QED  BY <1>1, <1>9, <2>1 DEF TypeOK, Stack, ReadBegin, Cpu, Mode
<1>10. CASE ReadReturn
  BY <1>1, <1>4, <1>10 DEF TypeOK, Stack, ReadReturn
<1>11. ASSUME NEW status \in 0..255, NEW why \in {"halt", "exception"},
              syscall_halt(status, why), cpu.mode \in {"user", "read"}
       PROVE  TypeOK'
  <2>1. cur_pid \in Pid
    BY <1>1, <1>3, <1>11 DEF TypeOK, Stack, Machine
  <2>2. CASE HaltBase
    <3>1. decord_process(pcb_bitmap, cur_pid) \subseteq Pid
      BY <1>1 DEF TypeOK, Stack, decord_process
    <3>2. StartProgram(decord_process(pcb_bitmap, cur_pid), None, pcb_ctx, pcb_esp0, {})
      BY <2>2 DEF HaltBase
    <3>3. UNCHANGED <<term_pid, running_term, exec_ret>>
      BY <2>2 DEF HaltBase
    <3>4. /\ pcb_ctx \in [Pid -> Ctx] /\ pcb_esp0 \in [Pid -> Stack] /\ {} \in SUBSET Pid
          /\ term_pid' \in [Tid -> Stack] /\ running_term' \in Tid /\ None \in Stack
      BY <1>1, <3>3 DEF TypeOK, Stack
    <3> QED  BY <1>1, <3>1, <3>2, <3>3, <3>4, StartProgramKeepsTypes
  <2>3. CASE HaltChild(status, why)
    <3>1. parent_pid[cur_pid] \in Pid
      BY <1>1, <2>1, <2>3 DEF TypeOK, Stack, HaltChild
    <3>2. UserPage(parent_pid[cur_pid]) \in 0..(MAX_NUM_PROCESS + 1)
      BY <3>1, UserPageType
    <3> QED  BY <1>1, <1>4, <1>11, <2>1, <2>3, <3>1, <3>2
             DEF TypeOK, Stack, HaltChild, RestoreParent, decord_process, Return
  <2> QED  BY <1>11, <2>2, <2>3 DEF syscall_halt
<1>12. CASE Halt
  BY <1>11, <1>12, ProcessAssumption DEF Halt
<1>13. CASE Exception
  BY <1>11, <1>13 DEF Exception
<1>14. CASE Tick
  <2> DEFINE next == next_term_to_run(running_term)
  <2>1. next \in Tid
    BY <1>1, NextTerm DEF TypeOK, Stack
  <2>2. cur_pid # None => cpu.mode \in {"user", "read", "iret"}
    BY <1>1, <1>2, <1>3 DEF TypeOK, Stack, Cpu, Mode, Machine
  <2>3. /\ SavedCtx \in [Pid -> Ctx]
        /\ SavedEsp0 \in [Pid -> Stack]
        /\ SavedTermPid \in [Tid -> Stack]
    BY <1>1, <2>2, SavedType
  <2>4. /\ term_pid' = SavedTermPid
        /\ running_term' = next
        /\ SwitchTo(next) \/ LaunchBaseShell(next) \/ LaunchFails(next)
        /\ UNCHANGED exec_ret
    BY <1>14 DEF Tick, schedule
  <2> HIDE DEF next
  <2>5. CASE SwitchTo(next)
    <3>1. SavedTermPid[next] \in Pid
      BY <2>1, <2>3, <2>5 DEF SwitchTo, Stack
    <3>2. UserPage(SavedTermPid[next]) \in 0..(MAX_NUM_PROCESS + 1)
      BY <3>1, UserPageType
    <3>3. cpu' \in Cpu
      BY <2>3, <2>5, <3>1, ResumeType DEF SwitchTo
    <3> QED  BY <1>1, <2>1, <2>3, <2>4, <2>5, <3>1, <3>2, <3>3 DEF TypeOK, Stack, SwitchTo
  <2>6. CASE LaunchBaseShell(next)
    <3> DEFINE above == cpu.above \cup ({cur_pid} \ {None})
    <3>1. above \in SUBSET Pid
      BY <1>1 DEF TypeOK, Stack, Cpu
    <3>2. StartProgram(pcb_bitmap, None, SavedCtx, SavedEsp0, above)
      BY <2>6 DEF LaunchBaseShell
    <3>3. /\ pcb_bitmap \subseteq Pid /\ None \in Stack
          /\ term_pid' \in [Tid -> Stack] /\ running_term' \in Tid
      BY <1>1, <2>1, <2>3, <2>4 DEF TypeOK, Stack
    <3> HIDE DEF above
    <3> QED  BY <1>1, <2>3, <2>4, <3>1, <3>2, <3>3, StartProgramKeepsTypes
  <2>7. CASE LaunchFails(next)
    BY <1>1, <1>4, <2>1, <2>3, <2>4, <2>7, UserPageType DEF TypeOK, Stack, LaunchFails
  <2> QED  BY <2>4, <2>5, <2>6, <2>7
<1> QED
  BY <1>1, <1>5, <1>6, <1>7, <1>8, <1>9, <1>10, <1>12, <1>13, <1>14 DEF Step

-----------------------------------------------------------------------------
(* Preservation of the rest of IInv, one lemma for each kind of step *)

Alive == cpu.mode # "lost" /\ TypeOK /\ Tree /\ Machine /\ Frames /\ Stacks

(* A frame of another live process on the kernel stack of a terminal's     *)
(* process was saved in the launch of a base shell.                        *)
LEMMA ForeignFrame ==
  ASSUME Alive, NEW t \in Tid, NEW q \in pcb_bitmap,
         Leaf(t) # None, q # Leaf(t), q # cur_pid, pcb_ctx[q].stk = Leaf(t)
  PROVE  Launching(q)
<1>1. CASE \E u \in Tid : Leaf(u) = q
  <2>1. PICK u \in Tid : Leaf(u) = q
    BY <1>1
  <2>2. u # running_term /\ term_pid[u] = q
    BY <2>1 DEF Leaf
  <2>3. Parked(q) /\ q # None
    BY <2>2, PidFacts DEF Alive, Frames, TypeOK
  <2>4. parent_pid[q] # Leaf(t)
    BY DEF Alive, Tree
  <2> QED  BY <2>3, <2>4 DEF Parked, Launching
<1>2. CASE \E r \in pcb_bitmap : parent_pid[r] = q
  BY <1>2, PidFacts DEF Alive, Frames, TypeOK
<1> QED  BY <1>1, <1>2 DEF Alive, Tree

Same == UNCHANGED <<cur_pid, pcb_bitmap, parent_pid, pcb_ctx, pcb_esp0, term_pid,
                    running_term, pg_addr, tss_esp0>>

(* System calls that move no process: the CPU stays where it is, or goes   *)
(* to user mode or into a read on the process's own kernel stack.          *)
LEMMA SameInv ==
  ASSUME Alive, Clobber, Same,
         \/ UNCHANGED cpu
         \/ cpu.mode # "boot" /\ cpu' = User
         \/ cpu.mode = "user" /\ cpu' = [mode |-> "read", stk |-> KernelStack, above |-> {}]
  PROVE  Tree' /\ Machine' /\ Frames' /\ Stacks'
<1>1. Tree'
  BY DEF Alive, Same, Tree, Leaf
<1>2. Machine'
  BY DEF Alive, Same, Machine, User, KernelStack
<1>3. Frames'
  BY DEF Alive, Same, Frames, Parked
<1>4. Stacks'
  <2>1. clobbered' \subseteq pcb_bitmap' \ {cur_pid'}
    BY DEF Clobber
  <2>2. Below(cur_pid, KernelStack, cpu.above)' \subseteq clobbered'
    BY DEF Clobber, Below
  <2>3. ASSUME NEW q \in clobbered' PROVE Launching(q)'
    <3>1. q \in pcb_bitmap /\ q # cur_pid
      BY <2>1, <2>3 DEF Same
    <3>2. CASE q \in clobbered
      BY <3>2 DEF Alive, Stacks, Launching, Same
    <3>3. CASE UNCHANGED cpu
      <4>1. q \in clobbered \/ q \in Below(cur_pid, KernelStack, cpu.above)
        BY <2>3, <3>3 DEF Clobber, Same, Below, KernelStack
      <4> QED  BY <3>2, <4>1 DEF Alive, Stacks
    <3>4. CASE ~UNCHANGED cpu
      <4>1. KernelStack' = cur_pid /\ cpu'.above = {} /\ cur_pid # None
        BY <3>4 DEF KernelStack, User, Same, Alive, Machine
      <4>2. q \in clobbered \/ pcb_ctx[q].stk = cur_pid
        BY <2>3, <4>1 DEF Clobber, Same
      <4>3. running_term \in Tid /\ Leaf(running_term) = cur_pid
        BY DEF Alive, TypeOK, Leaf
      <4>4. Launching(q)
        BY <3>1, <3>2, <4>1, <4>2, <4>3, ForeignFrame DEF Alive, Stacks
      <4> QED  BY <4>4 DEF Launching, Same
    <3> QED  BY <3>3, <3>4
  <2>4. ASSUME NEW t \in Tid \ {running_term'}, term_pid'[t] # None,
               term_pid'[t] \notin clobbered', pcb_ctx'[term_pid'[t]].at = "iret",
               NEW q \in Below(term_pid[t], pcb_ctx[term_pid[t]].stk,
                               pcb_ctx[term_pid[t]].above)'
        PROVE  Launching(q)'
    <3>1. term_pid[t] \in pcb_bitmap \ {cur_pid}
      BY <2>4 DEF Alive, Tree, Leaf, Same, TypeOK
    <3>2. term_pid[t] \notin clobbered
      BY <2>4, <3>1 DEF Clobber, Same
    <3>3. Launching(q)
      BY <2>4, <3>2 DEF Alive, Stacks, Same, Below
    <3> QED  BY <3>3 DEF Launching, Same
  <2> QED  BY <2>1, <2>2, <2>3, <2>4 DEF Stacks
<1> QED  BY <1>1, <1>2, <1>3, <1>4
-----------------------------------------------------------------------------
(* execute and halt preserve the invariant. *)

(* execute: the new process takes the caller's place in its terminal.      *)
LEMMA ExecuteInv ==
  ASSUME Alive, Clobber, Execute
  PROVE  Tree' /\ Machine' /\ Frames' /\ Stacks'
<1> DEFINE c == cur_pid
<1>1. c \in pcb_bitmap /\ c \in Pid /\ c # None /\ tss_esp0 = c /\ KernelStack = c
  BY PidFacts DEF Alive, Machine, Execute, Tree, Leaf, TypeOK, KernelStack
<1>2. CallerCtx \in [Pid -> Ctx] /\ CallerCtx = [pcb_ctx EXCEPT ![c] = Frame("execute")]
  BY FrameType, Zenon DEF CallerCtx, Alive, TypeOK
<1>3. /\ cur_pid' \in Pid /\ cur_pid' \notin pcb_bitmap
      /\ pcb_bitmap' = pcb_bitmap \cup {cur_pid'}
      /\ parent_pid' = [parent_pid EXCEPT ![cur_pid'] = c]
      /\ pcb_ctx' = CallerCtx
      /\ pcb_esp0' = [pcb_esp0 EXCEPT ![cur_pid'] = cur_pid']
      /\ pg_addr' = UserPage(cur_pid')
      /\ tss_esp0' = cur_pid'
      /\ cpu' = [mode |-> "iret", stk |-> KernelStack, above |-> {c}]
  <2>1. StartProgram(pcb_bitmap, c, CallerCtx, pcb_esp0, {c}) /\ TypeOK
    BY DEF Execute, Alive
  <2>2. pcb_bitmap \subseteq Pid /\ c \in Stack /\ pcb_esp0 \in [Pid -> Stack] /\ {c} \in SUBSET Pid
    BY <1>1 DEF Alive, TypeOK, Stack
  <2>3. CallerCtx \in [Pid -> Ctx]
    BY <1>2
  <2> HIDE DEF c
  <2> QED  BY <2>1, <2>2, <2>3, StartProgramType, Zenon
<1>4. UNCHANGED <<term_pid, running_term>> /\ running_term \in Tid
  BY DEF Execute, Alive, TypeOK
<1>5. /\ parent_pid \in [Pid -> Stack] /\ pcb_esp0 \in [Pid -> Stack] /\ pcb_ctx \in [Pid -> Ctx]
      /\ pcb_bitmap \subseteq Pid
  BY DEF Alive, TypeOK, Stack
<1>6. cur_pid' # None /\ cur_pid' # c
  BY <1>1, <1>3, PidFacts
<1>7. \A t \in Tid : Leaf(t)' = IF t = running_term THEN cur_pid' ELSE Leaf(t)
  BY <1>4 DEF Leaf
<1>8. Leaf(running_term) = c /\ \A t \in Tid \ {running_term} : Leaf(t) # c
  BY <1>1, <1>4 DEF Alive, Tree, Leaf
<1>9. \A p \in pcb_bitmap : parent_pid'[p] = parent_pid[p] /\ parent_pid[p] # c
  BY <1>1, <1>3, <1>5, <1>8, <1>4 DEF Alive, Tree
<1>10. parent_pid'[cur_pid'] = c
  BY <1>3, <1>5
<1>11. /\ \A p \in pcb_bitmap : p # c => pcb_ctx'[p] = pcb_ctx[p]
       /\ pcb_ctx'[c].at = "execute" /\ pcb_ctx'[c].stk = c
  BY <1>1, <1>2, <1>3, <1>5 DEF Frame
<1>12. Tree'
  <2> HIDE DEF c
  <2>1. \A t \in Tid : Leaf(t)' \in (pcb_bitmap \cup {None})'
    BY <1>3, <1>7 DEF Alive, Tree
  <2>2. \A p \in pcb_bitmap' : parent_pid'[p] \in (pcb_bitmap \cup {None})'
    BY <1>1, <1>3, <1>9, <1>10 DEF Alive, Tree
  <2>3. \A p, q \in pcb_bitmap' : parent_pid'[p] = parent_pid'[q] /\ parent_pid'[p] # None => p = q
    BY <1>3, <1>9, <1>10 DEF Alive, Tree
  <2>4. \A t, u \in Tid : Leaf(t)' = Leaf(u)' /\ Leaf(t)' # None => t = u
    BY <1>3, <1>6, <1>7 DEF Alive, Tree
  <2>5. ASSUME NEW t \in Tid, NEW p \in pcb_bitmap', Leaf(t)' # None
        PROVE  parent_pid'[p] # Leaf(t)'
    <3>1. CASE p \in pcb_bitmap
      BY <1>3, <1>6, <1>7, <1>9, <2>5, <3>1 DEF Alive, Tree
    <3>2. CASE p = cur_pid'
      BY <1>3, <1>6, <1>7, <1>8, <1>10, <2>5, <3>2
    <3> QED  BY <1>3, <3>1, <3>2
  <2>6. ASSUME NEW p \in pcb_bitmap'
        PROVE  (\E t \in Tid : Leaf(t)' = p) \/ (\E q \in pcb_bitmap' : parent_pid'[q] = p)
    <3>1. CASE p = cur_pid'
      BY <1>4, <1>7, <3>1
    <3>2. CASE p = c
      BY <1>3, <1>10, <3>2
    <3>3. CASE p \in pcb_bitmap /\ p # c
      BY <1>3, <1>7, <1>8, <1>9, <3>3 DEF Alive, Tree
    <3> QED  BY <1>3, <3>1, <3>2, <3>3
  <2> QED  BY <2>1, <2>2, <2>3, <2>4, <2>5, <2>6 DEF Tree
<1>13. Machine'
  BY <1>1, <1>3, <1>6, <1>10 DEF Machine
<1>14. ASSUME NEW t \in Tid \ {running_term}, term_pid[t] # None
       PROVE  /\ term_pid[t] = Leaf(t) /\ term_pid[t] \in pcb_bitmap
              /\ term_pid[t] # c /\ term_pid[t] # cur_pid'
  BY <1>3, <1>8, <1>14 DEF Alive, Tree, Leaf
<1>15. Frames'
  <2> HIDE DEF c
  <2>1. \A p \in pcb_bitmap' : pcb_esp0'[p] = p
    BY <1>3, <1>5 DEF Alive, Frames
  <2>2. ASSUME NEW q \in pcb_bitmap', parent_pid'[q] # None
        PROVE  pcb_ctx'[parent_pid'[q]].at = "execute" /\ pcb_ctx'[parent_pid'[q]].stk = parent_pid'[q]
    <3>1. CASE q = cur_pid'
      BY <1>10, <1>11, <3>1
    <3>2. CASE q \in pcb_bitmap
      <4>1. parent_pid'[q] = parent_pid[q] /\ parent_pid[q] \in pcb_bitmap /\ parent_pid[q] # c
        BY <1>9, <2>2, <3>2 DEF Alive, Tree
      <4> QED  BY <1>11, <2>2, <3>2, <4>1 DEF Alive, Frames
    <3> QED  BY <1>3, <3>1, <3>2
  <2>3. ASSUME NEW t \in Tid \ {running_term'}, term_pid'[t] # None
        PROVE  Parked(term_pid[t])'
    BY <1>4, <1>9, <1>11, <1>14, <2>3 DEF Alive, Frames, Parked
  <2> QED  BY <2>1, <2>2, <2>3 DEF Frames
<1>16. \A q \in pcb_bitmap \ {c} : Launching(q)' <=> Launching(q)
  BY <1>9, <1>11 DEF Launching
<1>17. Stacks'
  <2> HIDE DEF c
  <2>1. clobbered' \subseteq pcb_bitmap' \ {cur_pid'}
    BY DEF Clobber
  <2>2. Below(cur_pid, KernelStack, cpu.above)' \subseteq clobbered'
    BY DEF Clobber, Below
  <2>3. ASSUME NEW q \in clobbered' PROVE Launching(q)'
    <3>1. q \in pcb_bitmap /\ (q \in clobbered \/ (pcb_ctx'[q].stk = KernelStack' /\ q \notin cpu'.above))
      BY <1>3, <2>3 DEF Clobber
    <3>2. KernelStack' = c /\ cpu'.above = {c}
      BY <1>1, <1>3 DEF KernelStack
    <3>3. c \notin clobbered
      BY DEF Alive, Stacks, c
    <3>4. q # c /\ Launching(q)
      BY <1>1, <1>4, <1>8, <1>11, <3>1, <3>2, <3>3, ForeignFrame DEF Alive, Stacks, c
    <3> QED  BY <1>16, <3>1, <3>4
  <2>4. ASSUME NEW t \in Tid \ {running_term'}, term_pid'[t] # None,
               term_pid'[t] \notin clobbered', pcb_ctx'[term_pid'[t]].at = "iret",
               NEW q \in Below(term_pid[t], pcb_ctx[term_pid[t]].stk,
                               pcb_ctx[term_pid[t]].above)'
        PROVE  Launching(q)'
    <3> DEFINE p == term_pid[t]
    <3>1. p \in pcb_bitmap /\ p # c /\ p # cur_pid' /\ t # running_term /\ p # None
      BY <1>4, <1>14, <2>4
    <3>2. p \notin clobbered
      BY <1>3, <1>4, <2>4, <3>1 DEF Clobber
    <3>3. pcb_ctx'[p] = pcb_ctx[p] /\ Parked(p)
      BY <1>11, <3>1 DEF Alive, Frames
    <3>4. q \in pcb_bitmap /\ q # p /\ pcb_ctx'[q].stk = pcb_ctx[p].stk /\ q \notin pcb_ctx[p].above
      BY <1>3, <1>4, <2>4, <3>3 DEF Below
    <3>5. CASE q = c
      \* the caller's frame is on its own stack: below p only if p was launched on it
      <4>1. pcb_ctx[p].stk = c
        BY <1>11, <3>4, <3>5
      <4>2. p \notin Below(c, KernelStack, cpu.above)
        BY <3>2 DEF Alive, Stacks, c
      <4>3. FALSE
        BY <1>1, <3>1, <4>1, <4>2 DEF Below, Alive, Machine, Execute, c
      <4> QED  BY <4>3
    <3>6. CASE q # c
      <4>1. q \in Below(p, pcb_ctx[p].stk, pcb_ctx[p].above)
        BY <1>11, <3>4, <3>6 DEF Below, c
      <4>2. Launching(q)
        BY <1>4, <2>4, <3>1, <3>2, <3>3, <4>1 DEF Alive, Stacks
      <4> QED  BY <1>16, <3>4, <3>6, <4>2
    <3> QED  BY <3>5, <3>6
  <2> QED  BY <2>1, <2>2, <2>3, <2>4 DEF Stacks
<1> QED  BY <1>12, <1>13, <1>15, <1>17

(* halt of a base shell: its successor takes its place in its terminal.    *)
LEMMA HaltBaseInv ==
  ASSUME Alive, Clobber, HaltBase, cpu.mode \in {"user", "read"}
  PROVE  Tree' /\ Machine' /\ Frames' /\ Stacks'
<1> DEFINE c == cur_pid
           rest == decord_process(pcb_bitmap, c)
<1>1. c \in pcb_bitmap /\ c \in Pid /\ c # None /\ tss_esp0 = c /\ KernelStack = c
  BY PidFacts DEF Alive, Machine, Tree, Leaf, TypeOK, KernelStack
<1>2. /\ cur_pid' \in Pid /\ cur_pid' \notin rest
      /\ pcb_bitmap' = rest \cup {cur_pid'}
      /\ parent_pid' = [parent_pid EXCEPT ![cur_pid'] = None]
      /\ pcb_ctx' = pcb_ctx
      /\ pcb_esp0' = [pcb_esp0 EXCEPT ![cur_pid'] = cur_pid']
      /\ pg_addr' = UserPage(cur_pid')
      /\ tss_esp0' = cur_pid'
      /\ cpu' = [mode |-> "iret", stk |-> KernelStack, above |-> {}]
  <2>1. StartProgram(rest, None, pcb_ctx, pcb_esp0, {}) /\ TypeOK
    BY DEF HaltBase, Alive
  <2>2. /\ rest \subseteq Pid /\ None \in Stack /\ pcb_ctx \in [Pid -> Ctx]
        /\ pcb_esp0 \in [Pid -> Stack] /\ {} \in SUBSET Pid
    BY DEF Alive, TypeOK, Stack, decord_process
  <2> HIDE DEF rest
  <2> QED  BY <2>1, <2>2, StartProgramType, Zenon
<1>3. UNCHANGED <<term_pid, running_term>> /\ running_term \in Tid /\ parent_pid[c] = None
  BY DEF HaltBase, Alive, TypeOK
<1>4. /\ parent_pid \in [Pid -> Stack] /\ pcb_esp0 \in [Pid -> Stack]
      /\ rest = pcb_bitmap \ {c} /\ rest \subseteq Pid
  BY DEF Alive, TypeOK, Stack, decord_process
<1>5. cur_pid' # None
  BY <1>2, PidFacts
<1>6. \A t \in Tid : Leaf(t)' = IF t = running_term THEN cur_pid' ELSE Leaf(t)
  BY <1>3 DEF Leaf
<1>7. Leaf(running_term) = c /\ \A t \in Tid \ {running_term} : Leaf(t) # c
  BY <1>1, <1>3 DEF Alive, Tree, Leaf
<1>8. \A p \in rest : parent_pid'[p] = parent_pid[p] /\ parent_pid[p] # c
  BY <1>1, <1>2, <1>3, <1>4, <1>7 DEF Alive, Tree
<1>9. parent_pid'[cur_pid'] = None
  BY <1>2, <1>4
<1> HIDE DEF rest
<1>10. Tree'
  <2> HIDE DEF c
  <2>1. \A t \in Tid : Leaf(t)' \in (pcb_bitmap \cup {None})'
    BY <1>2, <1>4, <1>6, <1>7 DEF Alive, Tree
  <2>2. \A p \in pcb_bitmap' : parent_pid'[p] \in (pcb_bitmap \cup {None})'
    BY <1>2, <1>4, <1>8, <1>9 DEF Alive, Tree
  <2>3. \A p, q \in pcb_bitmap' : parent_pid'[p] = parent_pid'[q] /\ parent_pid'[p] # None => p = q
    BY <1>2, <1>4, <1>8, <1>9 DEF Alive, Tree
  <2>4. ASSUME NEW t \in Tid \ {running_term} PROVE Leaf(t)' # cur_pid'
    BY <1>2, <1>4, <1>5, <1>6, <1>7 DEF Alive, Tree
  <2>5. \A t, u \in Tid : Leaf(t)' = Leaf(u)' /\ Leaf(t)' # None => t = u
    BY <1>6, <2>4 DEF Alive, Tree
  <2>6. ASSUME NEW t \in Tid, NEW p \in pcb_bitmap', Leaf(t)' # None
        PROVE  parent_pid'[p] # Leaf(t)'
    <3>1. CASE p = cur_pid'
      BY <1>9, <2>6, <3>1
    <3>2. CASE p \in rest /\ t = running_term
      <4>1. parent_pid[p] \in rest \cup {None}
        BY <1>4, <1>8, <3>2 DEF Alive, Tree
      <4> QED  BY <1>2, <1>5, <1>6, <1>8, <3>2, <4>1
    <3>3. CASE p \in rest /\ t # running_term
      BY <1>4, <1>6, <1>8, <2>6, <3>3 DEF Alive, Tree
    <3> QED  BY <1>2, <3>1, <3>2, <3>3
  <2>7. ASSUME NEW p \in pcb_bitmap'
        PROVE  (\E t \in Tid : Leaf(t)' = p) \/ (\E q \in pcb_bitmap' : parent_pid'[q] = p)
    <3>1. CASE p = cur_pid'
      BY <1>3, <1>6, <3>1
    <3>2. CASE p \in rest /\ \E t \in Tid : Leaf(t) = p
      BY <1>4, <1>6, <1>7, <3>2
    <3>3. CASE p \in rest /\ \E q \in pcb_bitmap : parent_pid[q] = p
      <4>1. PICK q \in pcb_bitmap : parent_pid[q] = p
        BY <3>3
      <4>2. q \in rest
        BY <1>3, <1>4, <3>3, <4>1, PidFacts
      <4> QED  BY <1>2, <1>8, <4>1, <4>2
    <3> QED  BY <1>2, <1>4, <3>1, <3>2, <3>3 DEF Alive, Tree
  <2> QED  BY <2>1, <2>2, <2>3, <2>5, <2>6, <2>7 DEF Tree
<1>11. Machine'
  BY <1>2, <1>5, <1>9 DEF Machine
<1>12. ASSUME NEW t \in Tid \ {running_term}, term_pid[t] # None
       PROVE  term_pid[t] = Leaf(t) /\ term_pid[t] \in rest
  BY <1>4, <1>7, <1>12 DEF Alive, Tree, Leaf
<1>13. Frames'
  <2> HIDE DEF c
  <2>1. \A p \in pcb_bitmap' : pcb_esp0'[p] = p
    BY <1>2, <1>4 DEF Alive, Frames
  <2>2. ASSUME NEW q \in pcb_bitmap', parent_pid'[q] # None
        PROVE  pcb_ctx'[parent_pid'[q]].at = "execute" /\ pcb_ctx'[parent_pid'[q]].stk = parent_pid'[q]
    BY <1>2, <1>4, <1>8, <1>9, <2>2, SMTT(30) DEF Alive, Frames
  <2>3. ASSUME NEW t \in Tid \ {running_term'}, term_pid'[t] # None
        PROVE  Parked(term_pid[t])'
    <3>1. t # running_term /\ term_pid'[t] = term_pid[t] /\ term_pid[t] # None
      BY <1>3, <2>3
    <3>2. Parked(term_pid[t]) /\ term_pid[t] \in rest
      BY <1>12, <3>1 DEF Alive, Frames
    <3>3. pcb_ctx'[term_pid[t]] = pcb_ctx[term_pid[t]] /\ parent_pid'[term_pid[t]] = parent_pid[term_pid[t]]
      BY <1>2, <1>8, <3>2
    <3> QED  BY <3>1, <3>2, <3>3 DEF Parked
  <2> QED  BY <2>1, <2>2, <2>3 DEF Frames
<1>14. \A q \in rest : Launching(q)' <=> Launching(q)
  BY <1>2, <1>8 DEF Launching
<1>15. Stacks'
  <2> HIDE DEF c
  <2>1. clobbered' \subseteq pcb_bitmap' \ {cur_pid'}
    BY DEF Clobber
  <2>2. Below(cur_pid, KernelStack, cpu.above)' \subseteq clobbered'
    BY DEF Clobber, Below
  <2>3. ASSUME NEW q \in clobbered' PROVE Launching(q)'
    <3>1. q \in rest /\ (q \in clobbered \/ pcb_ctx[q].stk = KernelStack')
      BY <1>2, <2>3 DEF Clobber
    <3>2. KernelStack' = c
      BY <1>1, <1>2 DEF KernelStack
    <3>3. Launching(q)
      BY <1>1, <1>3, <1>4, <1>7, <3>1, <3>2, ForeignFrame, SMTT(30) DEF Alive, Stacks, c
    <3> QED  BY <1>14, <3>1, <3>3
  <2>4. ASSUME NEW t \in Tid \ {running_term'}, term_pid'[t] # None,
               term_pid'[t] \notin clobbered', pcb_ctx'[term_pid'[t]].at = "iret",
               NEW q \in Below(term_pid[t], pcb_ctx[term_pid[t]].stk,
                               pcb_ctx[term_pid[t]].above)'
        PROVE  Launching(q)'
    <3> DEFINE p == term_pid[t]
    <3>1. p \in rest /\ t # running_term /\ p # None
      BY <1>3, <1>12, <2>4
    <3>2. p \notin clobbered
      BY <1>2, <1>3, <2>4, <3>1 DEF Clobber
    <3>3. q \in rest /\ q \in Below(p, pcb_ctx[p].stk, pcb_ctx[p].above)
      BY <1>2, <1>3, <1>4, <2>4, SMTT(30) DEF Below, c
    <3>4. Launching(q)
      BY <1>2, <1>3, <2>4, <3>1, <3>2, <3>3 DEF Alive, Stacks
    <3> QED  BY <1>14, <3>3, <3>4
  <2> QED  BY <2>1, <2>2, <2>3, <2>4 DEF Stacks
<1> QED  BY <1>10, <1>11, <1>13, <1>15

(* halt of any other process: its parent takes its place in the terminal.  *)
LEMMA HaltChildInv ==
  ASSUME Alive, Clobber, NEW status, NEW why, HaltChild(status, why),
         cpu.mode \in {"user", "read"}
  PROVE  Tree' /\ Machine' /\ Frames' /\ Stacks' /\ cpu'.mode = "user"
<1> DEFINE c == cur_pid
           par == parent_pid[c]
<1>1. c \in pcb_bitmap /\ c \in Pid /\ c # None
  BY PidFacts DEF Alive, Machine, Tree, Leaf, TypeOK
<1>2. /\ par # None
      /\ cur_pid' = par
      /\ pcb_bitmap' = pcb_bitmap \ {c}
      /\ pg_addr' = UserPage(par)
      /\ tss_esp0' = pcb_esp0[par]
      /\ UNCHANGED <<parent_pid, pcb_ctx, pcb_esp0, term_pid, running_term>>
      /\ running_term \in Tid
  BY SMTT(30) DEF HaltChild, RestoreParent, decord_process, Alive, TypeOK
<1>3. Leaf(running_term) = c /\ \A t \in Tid \ {running_term} : Leaf(t) # c
  BY <1>1, <1>2 DEF Alive, Tree, Leaf
<1>4. par \in pcb_bitmap /\ par # c /\ par \in Pid
  BY <1>1, <1>2, <1>3, SMTT(30) DEF Alive, Tree, TypeOK
<1>5. pcb_esp0[par] = par /\ pcb_ctx[par].at = "execute" /\ pcb_ctx[par].stk = par
  BY <1>1, <1>2, <1>4 DEF Alive, Frames
<1>6. par \notin clobbered
  BY <1>5 DEF Alive, Stacks, Launching
<1>7. cpu' = User
  BY <1>5, <1>6 DEF HaltChild
<1>8. \A t \in Tid : Leaf(t)' = IF t = running_term THEN par ELSE Leaf(t)
  BY <1>2 DEF Leaf
<1>9. \A q \in pcb_bitmap : parent_pid[q] = par => q = c
  BY <1>1, <1>2 DEF Alive, Tree
<1>10. \A t \in Tid : Leaf(t) # par
  BY <1>1, <1>2 DEF Alive, Tree
<1>11. \A q \in pcb_bitmap : parent_pid[q] # c
  BY <1>1, <1>2, <1>3 DEF Alive, Tree
<1> HIDE DEF c, par
<1>12. Tree'
  <2>1. \A t \in Tid : Leaf(t)' \in (pcb_bitmap \cup {None})'
    BY <1>2, <1>3, <1>4, <1>8 DEF Alive, Tree
  <2>2. \A p \in pcb_bitmap' : parent_pid'[p] \in (pcb_bitmap \cup {None})'
    BY <1>2, <1>11 DEF Alive, Tree
  <2>3. \A p, q \in pcb_bitmap' : parent_pid'[p] = parent_pid'[q] /\ parent_pid'[p] # None => p = q
    BY <1>2 DEF Alive, Tree
  <2>4. \A t, u \in Tid : Leaf(t)' = Leaf(u)' /\ Leaf(t)' # None => t = u
    BY <1>8, <1>10 DEF Alive, Tree
  <2>5. ASSUME NEW t \in Tid, NEW p \in pcb_bitmap', Leaf(t)' # None
        PROVE  parent_pid'[p] # Leaf(t)'
    BY <1>2, <1>8, <1>9, <2>5 DEF Alive, Tree
  <2>6. ASSUME NEW p \in pcb_bitmap'
        PROVE  (\E t \in Tid : Leaf(t)' = p) \/ (\E q \in pcb_bitmap' : parent_pid'[q] = p)
    <3>1. CASE p = par
      BY <1>2, <1>8, <3>1
    <3>2. CASE p # par /\ \E t \in Tid : Leaf(t) = p
      BY <1>2, <1>3, <1>8, <3>2
    <3>3. CASE p # par /\ \E q \in pcb_bitmap : parent_pid[q] = p
      BY <1>2, <3>3 DEF par
    <3> QED  BY <1>2, <3>1, <3>2, <3>3 DEF Alive, Tree
  <2> QED  BY <2>1, <2>2, <2>3, <2>4, <2>5, <2>6 DEF Tree
<1>13. Machine'
  BY <1>2, <1>5, <1>7 DEF Machine, User
<1>14. ASSUME NEW t \in Tid \ {running_term}, term_pid[t] # None
       PROVE  term_pid[t] = Leaf(t) /\ term_pid[t] \in pcb_bitmap' \ {par}
  BY <1>2, <1>3, <1>10, <1>14 DEF Alive, Tree, Leaf
<1>15. Frames'
  BY <1>2, <1>14 DEF Alive, Frames, Parked
<1>16. Stacks'
  <2>1. clobbered' \subseteq pcb_bitmap' \ {cur_pid'}
    BY DEF Clobber
  <2>2. Below(cur_pid, KernelStack, cpu.above)' \subseteq clobbered'
    BY DEF Clobber, Below
  <2>3. ASSUME NEW q \in clobbered' PROVE Launching(q)'
    <3>1. q \in pcb_bitmap /\ q # c /\ q # par /\ (q \in clobbered \/ pcb_ctx[q].stk = KernelStack')
      BY <1>2, <2>3 DEF Clobber
    <3>2. KernelStack' = par
      BY <1>2, <1>5, <1>7 DEF KernelStack, User
    <3>3. CASE q \in clobbered
      BY <1>2, <3>3 DEF Alive, Stacks, Launching
    <3>4. CASE pcb_ctx[q].stk = par /\ \E u \in Tid : Leaf(u) = q
      <4>1. PICK u \in Tid : Leaf(u) = q
        BY <3>4
      <4>2. u # running_term /\ term_pid[u] = q
        BY <1>3, <3>1, <4>1 DEF Leaf
      <4>3. Parked(q)
        BY <3>1, <4>2, PidFacts DEF Alive, Frames, TypeOK
      <4>4. parent_pid[q] # par
        BY <1>9, <3>1
      <4> QED  BY <1>2, <3>1, <3>4, <4>3, <4>4 DEF Parked, Launching
    <3>5. CASE pcb_ctx[q].stk = par /\ \E r \in pcb_bitmap : parent_pid[r] = q
      BY <3>1, <3>5, PidFacts DEF Alive, Frames, TypeOK
    <3> QED  BY <3>1, <3>2, <3>3, <3>4, <3>5 DEF Alive, Tree
  <2>4. ASSUME NEW t \in Tid \ {running_term'}, term_pid'[t] # None,
               term_pid'[t] \notin clobbered', pcb_ctx'[term_pid'[t]].at = "iret",
               NEW q \in Below(term_pid[t], pcb_ctx[term_pid[t]].stk,
                               pcb_ctx[term_pid[t]].above)'
        PROVE  Launching(q)'
    <3> DEFINE p == term_pid[t]
    <3>1. p \in pcb_bitmap' \ {par} /\ t # running_term /\ p # None
      BY <1>2, <1>14, <2>4
    <3>2. p \notin clobbered
      BY <1>2, <2>4, <3>1 DEF Clobber
    <3>3. q \in Below(p, pcb_ctx[p].stk, pcb_ctx[p].above)
      BY <1>2, <2>4 DEF Below, c
    <3>4. Launching(q)
      BY <1>2, <2>4, <3>1, <3>2, <3>3 DEF Alive, Stacks
    <3> QED  BY <1>2, <3>4, SMTT(30) DEF Launching
  <2> QED  BY <2>1, <2>2, <2>3, <2>4 DEF Stacks
<1> QED  BY <1>7, <1>12, <1>13, <1>15, <1>16 DEF User
=============================================================================
