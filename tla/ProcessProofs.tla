---------------------------- MODULE ProcessProofs ----------------------------
(***************************************************************************)
(* The theorems about module Process, for every number of pids and of      *)
(* terminals.                                                              *)
(***************************************************************************)
EXTENDS ProcessInvariant

(* schedule preserves the invariant. *)

(* What schedule saves in term_arr is the process of each terminal.        *)
LEMMA SavedLeaf ==
  ASSUME TypeOK
  PROVE  SavedTermPid = [t \in Tid |-> Leaf(t)]
BY Zenon DEF TypeOK, SavedTermPid, Leaf

(* Only a base shell in its launch window is on a stack together with the  *)
(* intact frame of another terminal's process.                             *)
LEMMA SharedStack ==
  ASSUME Alive, cur_pid # None, NEW t \in Tid, t # running_term, Leaf(t) # None,
         Leaf(t) \notin clobbered, pcb_ctx[Leaf(t)].stk = KernelStack
  PROVE  cpu.mode = "iret" /\ parent_pid[cur_pid] = None
<1>1. Leaf(t) \in pcb_bitmap /\ Leaf(t) # cur_pid /\ cur_pid \in pcb_bitmap
  BY DEF Alive, Tree, Leaf, TypeOK
<1>2. Leaf(t) \in cpu.above
  BY <1>1 DEF Alive, Stacks, Below
<1>3. cpu.mode = "iret"
  BY <1>2 DEF Alive, Machine, TypeOK, Cpu, Mode
<1>4. parent_pid[cur_pid] # Leaf(t)
  BY <1>1 DEF Alive, Tree
<1> QED  BY <1>2, <1>3, <1>4 DEF Alive, Machine

(* What a tick does to the frames of the processes it does not resume.     *)
LEMMA Park ==
  ASSUME Alive, NEW c, c = cur_pid, c # None, Clobber, NEW next \in Tid, next # running_term,
         pcb_ctx' = SavedCtx, term_pid' = SavedTermPid, running_term' = next,
         pcb_bitmap' \ {cur_pid'} \subseteq pcb_bitmap,
         pcb_bitmap \subseteq pcb_bitmap',
         \A p \in pcb_bitmap : parent_pid'[p] = parent_pid[p],
         \A t \in Tid \ {next} : Leaf(t) # None => Leaf(t) # cur_pid'
  PROVE  /\ \A q \in pcb_bitmap \ {c} :
              pcb_ctx'[q] = pcb_ctx[q] /\ (Launching(q)' <=> Launching(q))
         /\ pcb_ctx'[c] = Frame(cpu.mode)
         /\ cpu.mode = "iret" /\ parent_pid[c] = None => Launching(c)'
         /\ \A q \in pcb_bitmap :
              LET p == parent_pid[q]
              IN  p # None => pcb_ctx'[p].at = "execute" /\ pcb_ctx'[p].stk = p
         /\ \A t \in Tid \ {next} : term_pid'[t] # None => Parked(term_pid[t])'
         /\ \A t \in Tid \ {next} :
              LET p == term_pid'[t]
              IN  p # None /\ p \notin clobbered' /\ pcb_ctx'[p].at = "iret" =>
                    \A q \in Below(term_pid[t], pcb_ctx[term_pid[t]].stk,
                                   pcb_ctx[term_pid[t]].above)' : Launching(q)'
<1>1. /\ c \in pcb_bitmap /\ c \in Pid /\ running_term \in Tid /\ Leaf(running_term) = c
      /\ pcb_bitmap \subseteq Pid
  BY PidFacts DEF Alive, Tree, Leaf, TypeOK
<1>2. /\ pcb_ctx' = [pcb_ctx EXCEPT ![c] = Frame(cpu.mode)] /\ pcb_ctx \in [Pid -> Ctx]
      /\ \A t \in Tid : term_pid'[t] = Leaf(t)
  BY SavedLeaf DEF Alive, TypeOK, SavedCtx
<1>3. cpu.mode \in {"user", "read", "iret"}
  BY DEF Alive, Machine, TypeOK, Cpu, Mode
<1>4. pcb_ctx'[c] = Frame(cpu.mode) /\ \A q \in pcb_bitmap \ {c} : pcb_ctx'[q] = pcb_ctx[q]
  BY <1>1, <1>2
<1>5. \A q \in pcb_bitmap \ {c} : Launching(q)' <=> Launching(q)
  BY <1>4 DEF Launching
<1>6. cpu.mode = "iret" /\ parent_pid[c] = None => Launching(c)'
  BY <1>1, <1>4 DEF Launching, Frame
<1>7. ASSUME NEW q \in pcb_bitmap, parent_pid[q] # None
      PROVE  pcb_ctx'[parent_pid[q]].at = "execute" /\ pcb_ctx'[parent_pid[q]].stk = parent_pid[q]
  <2>1. parent_pid[q] \in pcb_bitmap /\ parent_pid[q] # c
    BY <1>1, <1>7 DEF Alive, Tree
  <2> QED  BY <1>4, <1>7, <2>1 DEF Alive, Frames
<1>8. Parked(c)'
  <2>1. KernelStack = IF cpu.mode = "user" THEN c ELSE cpu.stk
    BY <1>3 DEF KernelStack, Alive, Machine
  <2> QED  BY <1>1, <1>3, <1>4, <2>1 DEF Parked, Frame, Alive, Machine
<1>9. ASSUME NEW t \in Tid \ {next}, Leaf(t) # None, t # running_term
      PROVE  Leaf(t) = term_pid[t] /\ Leaf(t) \in pcb_bitmap /\ Leaf(t) # c /\ Leaf(t) # cur_pid'
  BY <1>1, <1>9 DEF Alive, Tree, Leaf
<1>10. ASSUME NEW t \in Tid \ {next}, term_pid'[t] # None
       PROVE  Parked(term_pid[t])'
  <2>1. CASE t = running_term
    BY <1>1, <1>2, <1>8, <2>1 DEF Parked
  <2>2. CASE t # running_term
    <3>1. term_pid'[t] = term_pid[t] /\ term_pid[t] \in pcb_bitmap \ {c}
      BY <1>2, <1>9, <1>10, <2>2
    <3>2. Parked(term_pid[t])
      BY <1>10, <2>2, <3>1 DEF Alive, Frames
    <3> QED  BY <1>4, <3>1, <3>2 DEF Parked
  <2> QED  BY <2>1, <2>2
<1>11. ASSUME NEW t \in Tid \ {next}, term_pid'[t] # None, term_pid'[t] \notin clobbered',
              pcb_ctx'[term_pid'[t]].at = "iret",
              NEW q \in Below(term_pid[t], pcb_ctx[term_pid[t]].stk,
                              pcb_ctx[term_pid[t]].above)'
       PROVE  Launching(q)'
  <2> DEFINE p == term_pid'[t]
  <2>1. /\ p = Leaf(t)
        /\ q \in pcb_bitmap /\ q # p /\ q # cur_pid'
        /\ pcb_ctx'[q].stk = pcb_ctx'[p].stk /\ q \notin pcb_ctx'[p].above
    BY <1>2, <1>11 DEF Below
  <2>2. CASE t = running_term
    <3>1. p = c
      BY <1>1, <2>1, <2>2
    <3>2. q \in Below(cur_pid, KernelStack, cpu.above)
      BY <1>4, <2>1, <3>1 DEF Below, Frame
    <3>3. Launching(q)
      BY <3>2 DEF Alive, Stacks
    <3> QED  BY <1>5, <2>1, <3>1, <3>3
  <2>3. CASE t # running_term
    <3>1. p = term_pid[t] /\ p \in pcb_bitmap /\ p # c /\ p # cur_pid'
      BY <1>9, <1>11, <2>1, <2>3
    <3>2. p \notin clobbered
      BY <1>11, <3>1 DEF Clobber
    <3>3. pcb_ctx'[p] = pcb_ctx[p]
      BY <1>4, <3>1
    <3>4. CASE q = c
      <4>1. pcb_ctx[p].stk = KernelStack
        BY <1>4, <2>1, <3>3, <3>4 DEF Frame
      <4>2. cpu.mode = "iret" /\ parent_pid[cur_pid] = None
        BY <1>11, <2>1, <2>3, <3>2, <4>1, SharedStack
      <4> QED  BY <1>6, <3>4, <4>2
    <3>5. CASE q # c
      <4>1. q \in Below(p, pcb_ctx[p].stk, pcb_ctx[p].above)
        BY <1>4, <2>1, <3>3, <3>5 DEF Below
      <4>2. Launching(q)
        BY <1>11, <2>3, <3>1, <3>2, <3>3, <4>1 DEF Alive, Stacks
      <4> QED  BY <1>5, <2>1, <3>5, <4>2
    <3> QED  BY <3>4, <3>5
  <2> QED  BY <2>2, <2>3
<1>12. ASSUME NEW t \in Tid \ {next}
       PROVE  LET p == term_pid'[t]
              IN  p # None /\ p \notin clobbered' /\ pcb_ctx'[p].at = "iret" =>
                    \A q \in Below(term_pid[t], pcb_ctx[term_pid[t]].stk,
                                   pcb_ctx[term_pid[t]].above)' : Launching(q)'
  BY <1>11, Zenon
<1> QED  BY <1>4, <1>5, <1>6, <1>7, <1>10, <1>12, Zenon

(* schedule to a terminal that has a process.                              *)
LEMMA SwitchToInv ==
  ASSUME Alive, Clobber, NEW next \in Tid, next # running_term,
         term_pid' = SavedTermPid, running_term' = next, SwitchTo(next),
         cpu'.mode # "lost"
  PROVE  Tree' /\ Machine' /\ Frames' /\ Stacks'
<1> DEFINE pid == Leaf(next)
<1>1. running_term \in Tid /\ pcb_bitmap \subseteq Pid /\ \A t \in Tid : SavedTermPid[t] = Leaf(t)
  BY SavedLeaf DEF Alive, TypeOK
<1>2. /\ pid # None /\ cur_pid' = pid /\ pg_addr' = UserPage(pid)
      /\ tss_esp0' = SavedEsp0[pid] /\ cpu' = Resume(pid, SavedCtx[pid])
      /\ pcb_ctx' = SavedCtx /\ pcb_esp0' = SavedEsp0
      /\ UNCHANGED <<pcb_bitmap, parent_pid>>
  BY <1>1 DEF SwitchTo
<1>3. pid \in pcb_bitmap
  BY <1>2 DEF Alive, Tree
<1>4. PICK c : c = cur_pid
  OBVIOUS
<1>5. c # None
  BY <1>3, <1>4 DEF Alive, Machine
<1>6. c \in pcb_bitmap /\ c # pid /\ Leaf(running_term) = c
  BY <1>1, <1>2, <1>4, <1>5 DEF Alive, Tree, Leaf
<1>7. \A t \in Tid : Leaf(t)' = Leaf(t)
  BY <1>1, <1>2 DEF Leaf
<1>8. \A p \in pcb_bitmap : SavedEsp0[p] = p
  BY <1>1, <1>4, <1>5 DEF SavedEsp0, Alive, Frames, Machine, TypeOK
<1>9. \A t \in Tid \ {next} : Leaf(t) # None => Leaf(t) # cur_pid'
  BY <1>2 DEF Alive, Tree
<1>10. /\ \A q \in pcb_bitmap \ {c} :
            pcb_ctx'[q] = pcb_ctx[q] /\ (Launching(q)' <=> Launching(q))
       /\ pcb_ctx'[c] = Frame(cpu.mode)
       /\ cpu.mode = "iret" /\ parent_pid[c] = None => Launching(c)'
       /\ \A q \in pcb_bitmap :
            LET p == parent_pid[q]
            IN  p # None => pcb_ctx'[p].at = "execute" /\ pcb_ctx'[p].stk = p
       /\ \A t \in Tid \ {next} : term_pid'[t] # None => Parked(term_pid[t])'
       /\ \A t \in Tid \ {next} :
            LET p == term_pid'[t]
            IN  p # None /\ p \notin clobbered' /\ pcb_ctx'[p].at = "iret" =>
                  \A q \in Below(term_pid[t], pcb_ctx[term_pid[t]].stk,
                                 pcb_ctx[term_pid[t]].above)' : Launching(q)'
  <2>1. /\ pcb_bitmap' \ {cur_pid'} \subseteq pcb_bitmap
        /\ pcb_bitmap \subseteq pcb_bitmap'
        /\ \A p \in pcb_bitmap : parent_pid'[p] = parent_pid[p]
    BY <1>2
  <2> QED  BY <1>2, <1>4, <1>5, <1>9, <2>1, Park
<1>11. Parked(pid) /\ term_pid[next] = pid
  BY <1>2 DEF Alive, Frames, Leaf
<1>12. pid \notin clobbered /\ pcb_ctx'[pid] = pcb_ctx[pid]
  <2>1. pcb_ctx'[pid] = pcb_ctx[pid]
    BY <1>3, <1>6, <1>10
  <2>2. pid \in clobbered => Resume(pid, SavedCtx[pid]) = Lost
    BY DEF Resume
  <2>3. Lost.mode = "lost"
    BY DEF Lost
  <2> QED  BY <1>2, <2>1, <2>2, <2>3
<1>13. \/ pcb_ctx[pid].at = "user" /\ cpu' = User
       \/ /\ pcb_ctx[pid].at \in {"read", "iret"}
          /\ cpu' = [mode |-> pcb_ctx[pid].at, stk |-> pcb_ctx[pid].stk,
                     above |-> pcb_ctx[pid].above]
  BY <1>2, <1>11, <1>12 DEF Resume, Parked
<1> HIDE DEF pid
<1>14. Tree'
  BY <1>2, <1>7 DEF Alive, Tree
<1>15. Machine'
  BY <1>2, <1>3, <1>8, <1>11, <1>13 DEF Machine, User, Parked
<1>16. Frames'
  <2>1. \A p \in pcb_bitmap' : pcb_esp0'[p] = p
    BY <1>2, <1>8
  <2>2. \A q \in pcb_bitmap' :
          LET p == parent_pid'[q]
          IN  p # None => pcb_ctx'[p].at = "execute" /\ pcb_ctx'[p].stk = p
    BY <1>2, <1>10
  <2> QED  BY <1>10, <2>1, <2>2 DEF Frames
<1>17. Stacks'
  <2>1. clobbered' \subseteq pcb_bitmap' \ {cur_pid'}
    BY DEF Clobber
  <2>2. Below(cur_pid, KernelStack, cpu.above)' \subseteq clobbered'
    BY DEF Clobber, Below
  <2>3. ASSUME NEW q \in clobbered' PROVE Launching(q)'
    <3>1. /\ q \in pcb_bitmap /\ q # pid
          /\ q \in clobbered \/ (pcb_ctx'[q].stk = KernelStack' /\ q \notin cpu'.above)
      BY <1>2, <2>3 DEF Clobber
    <3>2. CASE q \in clobbered
      BY <1>4, <1>10, <3>1, <3>2 DEF Alive, Stacks
    <3>3. KernelStack' = pcb_ctx[pid].stk /\ cpu'.above = pcb_ctx[pid].above
      BY <1>2, <1>3, <1>8, <1>11, <1>13 DEF KernelStack, User, Parked
    <3>4. CASE q = c /\ q \notin clobbered
      <4>1. pcb_ctx[pid].stk = KernelStack
        BY <1>10, <3>1, <3>3, <3>4 DEF Frame
      <4>2. cpu.mode = "iret" /\ parent_pid[cur_pid] = None
        BY <1>2, <1>4, <1>5, <1>12, <4>1, SharedStack DEF pid
      <4> QED  BY <1>4, <1>10, <3>4, <4>2
    <3>5. CASE q # c /\ q \notin clobbered /\ pcb_ctx[pid].at \in {"user", "read"}
      <4>1. pcb_ctx[q].stk = pid
        BY <1>10, <1>11, <3>1, <3>3, <3>5 DEF Parked
      <4>2. Launching(q)
        BY <1>2, <1>4, <3>1, <3>5, <4>1, ForeignFrame DEF pid
      <4> QED  BY <1>10, <3>1, <3>5, <4>2
    <3>6. CASE q # c /\ q \notin clobbered /\ pcb_ctx[pid].at = "iret"
      <4>1. q \in Below(pid, pcb_ctx[pid].stk, pcb_ctx[pid].above)
        BY <1>4, <1>10, <3>1, <3>3, <3>6 DEF Below
      <4>2. Launching(q)
        BY <1>2, <1>11, <1>12, <3>6, <4>1 DEF Alive, Stacks
      <4> QED  BY <1>10, <3>1, <3>6, <4>2
    <3> QED  BY <1>11, <3>2, <3>4, <3>5, <3>6 DEF Parked
  <2> QED  BY <1>10, <2>1, <2>2, <2>3 DEF Stacks
<1> QED  BY <1>14, <1>15, <1>16, <1>17

(* schedule to a terminal that has none: its base shell is launched on the *)
(* stack of the process that the tick interrupted.                         *)
LEMMA LaunchInv ==
  ASSUME Alive, Clobber, NEW next \in Tid, next # running_term,
         term_pid' = SavedTermPid, running_term' = next, LaunchBaseShell(next)
  PROVE  Tree' /\ Machine' /\ Frames' /\ Stacks'
<1>1. /\ running_term \in Tid /\ pcb_bitmap \subseteq Pid
      /\ parent_pid \in [Pid -> Stack] /\ \A t \in Tid : SavedTermPid[t] = Leaf(t)
  BY SavedLeaf DEF Alive, TypeOK, Stack
<1>2. PICK c : c = cur_pid
  OBVIOUS
<1>3. PICK above : above = cpu.above \cup ({c} \ {None})
  BY Zenon
<1>4. /\ cur_pid' \in Pid /\ cur_pid' \notin pcb_bitmap
      /\ pcb_bitmap' = pcb_bitmap \cup {cur_pid'}
      /\ parent_pid' = [parent_pid EXCEPT ![cur_pid'] = None]
      /\ pcb_ctx' = SavedCtx
      /\ pcb_esp0' = [SavedEsp0 EXCEPT ![cur_pid'] = cur_pid']
      /\ pg_addr' = UserPage(cur_pid')
      /\ tss_esp0' = cur_pid'
      /\ cpu' = [mode |-> "iret", stk |-> KernelStack, above |-> above]
      /\ SavedEsp0 \in [Pid -> Stack] /\ Leaf(next) = None
  <2>1. StartProgram(pcb_bitmap, None, SavedCtx, SavedEsp0, above) /\ Leaf(next) = None
    BY <1>1, <1>2, <1>3 DEF LaunchBaseShell
  <2>2. cur_pid # None => cpu.mode \in {"user", "read", "iret"}
    BY DEF Alive, TypeOK, Cpu, Mode, Machine
  <2>3. TypeOK
    BY DEF Alive
  <2>4. SavedCtx \in [Pid -> Ctx] /\ SavedEsp0 \in [Pid -> Stack]
    BY <2>2, <2>3, SavedType
  <2>5. above \in SUBSET Pid /\ None \in Stack
    BY <1>2, <1>3 DEF Alive, TypeOK, Cpu, Stack
  <2>6. pcb_bitmap \subseteq Pid
    BY <1>1
  <2> QED  BY <2>1, <2>3, <2>4, <2>5, <2>6, StartProgramType, SMTT(30)
<1>5. cur_pid' # None
  BY <1>4, PidFacts
<1>6. \A t \in Tid : Leaf(t)' = IF t = next THEN cur_pid' ELSE Leaf(t)
  BY <1>1 DEF Leaf
<1>7. \A p \in pcb_bitmap : parent_pid'[p] = parent_pid[p]
  BY <1>1, <1>4
<1>8. parent_pid'[cur_pid'] = None
  BY <1>1, <1>4
<1>9. Tree'
  <2>1. \A t \in Tid : Leaf(t)' \in (pcb_bitmap \cup {None})'
    BY <1>4, <1>6 DEF Alive, Tree
  <2>2. \A p \in pcb_bitmap' : parent_pid'[p] \in (pcb_bitmap \cup {None})'
    BY <1>4, <1>7, <1>8 DEF Alive, Tree
  <2>3. \A p, q \in pcb_bitmap' : parent_pid'[p] = parent_pid'[q] /\ parent_pid'[p] # None => p = q
    BY <1>4, <1>7, <1>8 DEF Alive, Tree
  <2>4. \A t, u \in Tid : Leaf(t)' = Leaf(u)' /\ Leaf(t)' # None => t = u
    BY <1>4, <1>5, <1>6 DEF Alive, Tree
  <2>5. ASSUME NEW t \in Tid, NEW p \in pcb_bitmap', Leaf(t)' # None
        PROVE  parent_pid'[p] # Leaf(t)'
    <3>1. CASE p = cur_pid'
      BY <1>8, <2>5, <3>1
    <3>2. CASE p \in pcb_bitmap
      BY <1>4, <1>5, <1>6, <1>7, <2>5, <3>2 DEF Alive, Tree
    <3> QED  BY <1>4, <3>1, <3>2
  <2>6. ASSUME NEW p \in pcb_bitmap'
        PROVE  (\E t \in Tid : Leaf(t)' = p) \/ (\E q \in pcb_bitmap' : parent_pid'[q] = p)
    <3>1. CASE p = cur_pid'
      BY <1>6, <3>1
    <3>2. CASE p \in pcb_bitmap /\ \E t \in Tid : Leaf(t) = p
      BY <1>1, <1>4, <1>6, <3>2, PidFacts
    <3>3. CASE p \in pcb_bitmap /\ \E q \in pcb_bitmap : parent_pid[q] = p
      BY <1>4, <1>7, <3>3
    <3> QED  BY <1>4, <3>1, <3>2, <3>3 DEF Alive, Tree
  <2> QED  BY <2>1, <2>2, <2>3, <2>4, <2>5, <2>6 DEF Tree
<1>10. Machine'
  BY <1>4, <1>5, <1>8 DEF Machine
<1>11. \A p \in pcb_bitmap' : pcb_esp0'[p] = p
  BY <1>1, <1>4 DEF SavedEsp0, Alive, Frames, Machine, TypeOK
<1>12. Below(cur_pid, KernelStack, cpu.above)' \subseteq clobbered' /\ clobbered' \subseteq pcb_bitmap' \ {cur_pid'}
  BY DEF Clobber, Below
<1>13. CASE c = None
  <2>1. pcb_bitmap = {} /\ pcb_bitmap' = {cur_pid'} /\ clobbered' = {}
    BY <1>2, <1>4, <1>13 DEF Alive, Machine, Clobber
  <2>2. \A t \in Tid \ {next} : term_pid'[t] = None
    BY <1>1, <2>1 DEF Alive, Tree
  <2>3. Frames'
    BY <1>8, <1>11, <2>1, <2>2 DEF Frames
  <2>4. Stacks'
    BY <1>12, <2>1, <2>2 DEF Stacks
  <2> QED  BY <1>9, <1>10, <2>3, <2>4
<1>14. CASE c # None
  <2>1. /\ \A q \in pcb_bitmap \ {c} :
             pcb_ctx'[q] = pcb_ctx[q] /\ (Launching(q)' <=> Launching(q))
        /\ \A q \in pcb_bitmap :
             LET p == parent_pid[q]
             IN  p # None => pcb_ctx'[p].at = "execute" /\ pcb_ctx'[p].stk = p
        /\ \A t \in Tid \ {next} : term_pid'[t] # None => Parked(term_pid[t])'
        /\ \A t \in Tid \ {next} :
             LET p == term_pid'[t]
             IN  p # None /\ p \notin clobbered' /\ pcb_ctx'[p].at = "iret" =>
                   \A q \in Below(term_pid[t], pcb_ctx[term_pid[t]].stk,
                                  pcb_ctx[term_pid[t]].above)' : Launching(q)'
    <3>1. /\ pcb_bitmap' \ {cur_pid'} \subseteq pcb_bitmap
          /\ pcb_bitmap \subseteq pcb_bitmap'
          /\ \A t \in Tid \ {next} : Leaf(t) # None => Leaf(t) # cur_pid'
      BY <1>4, SMTT(30) DEF Alive, Tree
    <3> QED  BY <1>2, <1>4, <1>7, <1>14, <3>1, Park, SMTT(30)
  <2>2. Frames'
    <3>1. ASSUME NEW q \in pcb_bitmap', parent_pid'[q] # None
          PROVE  pcb_ctx'[parent_pid'[q]].at = "execute" /\ pcb_ctx'[parent_pid'[q]].stk = parent_pid'[q]
      BY <1>4, <1>7, <1>8, <2>1, <3>1
    <3> QED  BY <1>11, <2>1, <3>1 DEF Frames
  <2>3. ASSUME NEW q \in clobbered' PROVE Launching(q)'
    <3>1. /\ q \in pcb_bitmap
          /\ q \in clobbered \/ (pcb_ctx'[q].stk = KernelStack' /\ q \notin cpu'.above)
      BY <1>4, <2>3 DEF Clobber
    <3>2. KernelStack' = KernelStack /\ cpu'.above = above
      BY <1>4 DEF KernelStack
    <3>3. q # c
      BY <1>2, <1>3, <1>14, <3>1, <3>2 DEF Alive, Stacks
    <3>4. q \in clobbered \/ q \in Below(cur_pid, KernelStack, cpu.above)
      BY <1>2, <1>3, <2>1, <3>1, <3>2, <3>3 DEF Below
    <3>5. Launching(q)
      BY <3>4 DEF Alive, Stacks
    <3> QED  BY <2>1, <3>1, <3>3, <3>5, SMTT(30)
  <2>4. Stacks'
    BY <1>12, <2>1, <2>3 DEF Stacks
  <2> QED  BY <1>9, <1>10, <2>2, <2>4, SMTT(30)
<1> QED  BY <1>13, <1>14
-----------------------------------------------------------------------------

(* The inductive invariant *)

LEMMA InitInv == Init => IInv
<1> SUFFICES ASSUME Init PROVE IInv
  BY SMTT(30)
<1>1. TypeOK
  BY PidFacts DEF Init, TypeOK, Ctx, Stack, Cpu, Mode, Return
<1>2. Tree
  BY DEF Init, Tree, Leaf
<1>3. Machine
  BY DEF Init, Machine
<1>4. Frames
  BY DEF Init, Frames
<1>5. Stacks
  BY DEF Init, Stacks, Below
<1> QED  BY <1>1, <1>2, <1>3, <1>4, <1>5 DEF IInv

(* A step starts from a state that is not lost, and is one of these.       *)
LEMMA StepCases ==
  ASSUME IInv, Next
  PROVE  /\ Alive /\ Clobber
         /\ \/ Same /\ \/ UNCHANGED cpu
                       \/ cpu.mode # "boot" /\ cpu' = User
                       \/ cpu.mode = "user" /\ cpu' = [mode |-> "read", stk |-> KernelStack, above |-> {}]
            \/ Execute
            \/ cpu.mode \in {"user", "read"} /\ HaltBase
            \/ cpu.mode \in {"user", "read"} /\ \E status, why : HaltChild(status, why)
            \/ Tick
<1>1. Step /\ Clobber
  BY DEF Next
<1>2. Alive
  <2>1. cpu.mode # "lost"
    BY <1>1, Zenon DEF Step, ExecuteNoProgram, ExecuteFull, Execute, Iret, ReadBegin,
       ReadReturn, Halt, Exception, Tick
  <2> QED  BY <2>1 DEF IInv, Alive
<1>3. CASE ExecuteNoProgram \/ ExecuteFull
  BY <1>1, <1>2, <1>3 DEF ExecuteNoProgram, ExecuteFull, Same
<1>4. CASE Iret \/ ReadReturn
  BY <1>1, <1>2, <1>4 DEF Iret, ReadReturn, Same
<1>5. CASE ReadBegin
  BY <1>1, <1>2, <1>5 DEF ReadBegin, Same
<1>6. CASE Halt
  BY <1>1, <1>2, <1>6 DEF Halt, syscall_halt
<1>7. CASE Exception
  BY <1>1, <1>2, <1>7 DEF Exception, syscall_halt
<1> QED  BY <1>1, <1>2, <1>3, <1>4, <1>5, <1>6, <1>7 DEF Step

LEMMA NextInv == IInv /\ [Next]_vars => IInv'
<1> SUFFICES ASSUME IInv, [Next]_vars PROVE IInv'
  OBVIOUS
<1>1. CASE UNCHANGED vars
  <2>1. TypeOK'
    BY <1>1 DEF vars, IInv, TypeOK
  <2>2. Tree => Tree'
    BY <1>1 DEF vars, Tree, Leaf
  <2>3. Machine => Machine'
    BY <1>1 DEF vars, Machine
  <2>4. Frames => Frames'
    BY <1>1 DEF vars, Frames, Parked
  <2>5. Stacks => Stacks'
    BY <1>1 DEF vars, Stacks, Launching, Below, KernelStack
  <2>6. UNCHANGED cpu
    BY <1>1 DEF vars
  <2> QED  BY <2>1, <2>2, <2>3, <2>4, <2>5, <2>6 DEF IInv
<1>2. CASE Next
  <2>1. TypeOK'
    BY <1>2, TypeNext
  <2>2. Alive /\ Clobber
    BY <1>2, StepCases
  <2>3. SUFFICES ASSUME cpu'.mode # "lost" PROVE Tree' /\ Machine' /\ Frames' /\ Stacks'
    BY <2>1 DEF IInv
  <2>4. CASE Tick
    <3> DEFINE next == next_term_to_run(running_term)
    <3>1. next \in Tid /\ next # running_term
      BY <2>2, NextTerm DEF Alive, TypeOK
    <3>2. /\ term_pid' = SavedTermPid
          /\ running_term' = next
          /\ SwitchTo(next) \/ LaunchBaseShell(next) \/ LaunchFails(next)
      BY <2>4 DEF Tick, schedule
    <3> HIDE DEF next
    <3>3. ~LaunchFails(next)
      BY <2>3 DEF LaunchFails, Lost
    <3> QED  BY <2>2, <2>3, <3>1, <3>2, <3>3, SwitchToInv, LaunchInv
  <2> QED  BY <1>2, <2>2, <2>4, StepCases, SameInv, ExecuteInv, HaltBaseInv, HaltChildInv
<1> QED  BY <1>1, <1>2

LEMMA Invariance == Spec => []IInv
BY InitInv, NextInv, PTL DEF Spec

-----------------------------------------------------------------------------
(* Theorems *)

(***************************************************************************)
(* Types: the pids that record_process hands out, the pages UserPage maps  *)
(* and the pids in every PCB and terminal stay in range.                   *)
(***************************************************************************)
THEOREM TypeCorrect == Spec => []TypeOK
<1>1. IInv => TypeOK
  BY DEF IInv
<1> QED  BY <1>1, Invariance, PTL

(***************************************************************************)
(* Execute, halt and schedule never leak a pid and never let two           *)
(* terminals, or a terminal and a waiting parent, share one.               *)
(***************************************************************************)
THEOREM Threaded == Spec => []ProcessesThreaded
<1>1. ASSUME IInv PROVE ProcessesThreaded
  <2>1. SUFFICES ASSUME cpu.mode # "lost", Tree, TypeOK
                 PROVE  \A p \in pcb_bitmap :
                          \/ /\ Children(p) = {}
                             /\ \E t \in Tid : \A u \in Tid : (Leaf(u) = p) <=> (u = t)
                          \/ /\ \E q \in pcb_bitmap : Children(p) = {q}
                             /\ \A t \in Tid : Leaf(t) # p
    BY <1>1 DEF IInv, ProcessesThreaded, Tree
  <2>2. TAKE p \in pcb_bitmap
  <2>3. p # None
    BY <2>1, PidFacts DEF TypeOK
  <2>4. CASE \E t \in Tid : Leaf(t) = p
    BY <2>1, <2>3, <2>4 DEF Tree, Children
  <2>5. CASE \E q \in pcb_bitmap : parent_pid[q] = p
    <3>1. PICK q \in pcb_bitmap : parent_pid[q] = p
      BY <2>5
    <3>2. Children(p) = {q}
      BY <2>1, <2>3, <3>1 DEF Tree, Children
    <3>3. \A t \in Tid : Leaf(t) # p
      BY <2>1, <2>3, <3>1 DEF Tree
    <3> QED  BY <3>2, <3>3
  <2> QED  BY <2>1, <2>4, <2>5 DEF Tree
<1> QED  BY <1>1, Invariance, PTL

(***************************************************************************)
(* The esp and ebp in a PCB are the ones that whoever resumes the process  *)
(* expects: execute's for halt, schedule's for schedule.                   *)
(***************************************************************************)
THEOREM FramesSaved == Spec => []SavedFrames
<1>1. IInv => SavedFrames
  BY PidFacts DEF IInv, TypeOK, Frames, Parked, SavedFrames, Children
<1> QED  BY <1>1, Invariance, PTL

(***************************************************************************)
(* cur_pid, the mapped user page and tss.esp0 agree whenever a process     *)
(* runs, whatever sequence of execute, halt and schedule led there.        *)
(***************************************************************************)
THEOREM MachineFollows == Spec => []MachineFollowsProcess
<1>1. IInv => MachineFollowsProcess
  BY DEF IInv, Tree, Leaf, Machine, MachineFollowsProcess, TypeOK
<1> QED  BY <1>1, Invariance, PTL

(***************************************************************************)
(* The only frames handlers can overwrite are those of base shells that a  *)
(* tick suspended between the sti and the iret of their launch.            *)
(***************************************************************************)
THEOREM LaunchesClobbered == Spec => []OnlyLaunchesClobbered
<1>1. IInv => OnlyLaunchesClobbered
  BY DEF IInv, Stacks, Launching, OnlyLaunchesClobbered
<1> QED  BY <1>1, Invariance, PTL

(* A terminal that has a process has one after every step.                 *)
THEOREM TerminalKeeps == Spec => TerminalKeepsProcess
<1>1. ASSUME IInv, [Next]_vars
      PROVE  [\A t \in Tid : Leaf(t) # None => Leaf(t)' # None]_vars
  <2>1. SUFFICES ASSUME Next, NEW t \in Tid, Leaf(t) # None PROVE Leaf(t)' # None
    BY <1>1
  <2>2. Alive /\ Clobber /\ running_term \in Tid
    BY <1>1, <2>1, StepCases DEF Alive, TypeOK
  <2>3. CASE Same
    BY <2>1, <2>3 DEF Same, Leaf
  <2>4. CASE Execute \/ HaltBase
    <3>1. cur_pid' # None /\ UNCHANGED <<term_pid, running_term>>
      BY <2>4 DEF Execute, HaltBase, StartProgram
    <3> QED  BY <2>1, <3>1 DEF Leaf
  <2>5. CASE \E status, why : HaltChild(status, why)
    <3>1. cur_pid' # None /\ UNCHANGED <<term_pid, running_term>>
      BY <2>5 DEF HaltChild, RestoreParent
    <3> QED  BY <2>1, <3>1 DEF Leaf
  <2>6. CASE Tick
    <3> DEFINE next == next_term_to_run(running_term)
    <3>1. /\ term_pid' = SavedTermPid /\ running_term' = next /\ next \in Tid
          /\ SwitchTo(next) \/ LaunchBaseShell(next) \/ LaunchFails(next)
          /\ \A u \in Tid : SavedTermPid[u] = Leaf(u)
      BY <2>2, <2>6, NextTerm, SavedLeaf DEF Tick, schedule, Alive, TypeOK
    <3>2. CASE t # next
      BY <2>1, <3>1, <3>2 DEF Leaf
    <3>3. CASE t = next
      <4>1. SwitchTo(next) /\ cur_pid' = Leaf(next)
        BY <2>1, <3>1, <3>3 DEF SwitchTo, LaunchBaseShell, LaunchFails
      <4> QED  BY <2>1, <3>1, <3>3, <4>1 DEF Leaf
    <3> QED  BY <3>2, <3>3
  <2> QED  BY <1>1, <2>1, <2>3, <2>4, <2>5, <2>6, StepCases
<1> QED  BY <1>1, Invariance, PTL DEF Spec, TerminalKeepsProcess

(***************************************************************************)
(* The CPU is lost only when schedule resumes a base shell that was        *)
(* suspended in its launch window and overwritten, or has no pid left for  *)
(* a terminal's first shell.                                               *)
(***************************************************************************)
THEOREM LostAtLaunch == Spec => LostOnlyAtLaunch
<1> DEFINE next == next_term_to_run(running_term)
<1>1. ASSUME IInv, [Next]_vars
      PROVE  [cpu'.mode = "lost" =>
                \/ cpu.mode = "lost"
                \/ Leaf(next) \in clobbered
                \/ pcb_bitmap = Pid /\ Leaf(next) = None]_vars
  <2>1. SUFFICES ASSUME Next, cpu'.mode = "lost"
                 PROVE  Leaf(next) \in clobbered \/ (pcb_bitmap = Pid /\ Leaf(next) = None)
    BY <1>1
  <2>2. Alive /\ Clobber /\ running_term \in Tid /\ pcb_bitmap \subseteq Pid
    BY <1>1, <2>1, StepCases DEF Alive, TypeOK
  <2>3. Tick
    <3>1. CASE Same /\ \/ UNCHANGED cpu
                       \/ cpu.mode # "boot" /\ cpu' = User
                       \/ cpu.mode = "user" /\ cpu' = [mode |-> "read", stk |-> KernelStack, above |-> {}]
      BY <2>1, <2>2, <3>1 DEF Alive, User
    <3>2. CASE Execute \/ HaltBase
      BY <2>1, <3>2 DEF Execute, HaltBase, StartProgram
    <3>3. CASE cpu.mode \in {"user", "read"} /\ \E status, why : HaltChild(status, why)
      BY <2>1, <2>2, <3>3, HaltChildInv
    <3> QED  BY <1>1, <2>1, <3>1, <3>2, <3>3, StepCases
  <2>4. /\ next \in Tid /\ next # running_term
        /\ SwitchTo(next) \/ LaunchBaseShell(next) \/ LaunchFails(next)
        /\ \A u \in Tid : SavedTermPid[u] = Leaf(u)
    BY <2>2, <2>3, NextTerm, SavedLeaf, SMTT(30) DEF Tick, schedule, Alive, TypeOK
  <2> HIDE DEF next
  <2>5. CASE LaunchFails(next)
    BY <2>2, <2>4, <2>5, RecordProcess DEF LaunchFails
  <2>6. ~LaunchBaseShell(next)
    BY <2>1 DEF LaunchBaseShell, StartProgram
  <2>7. CASE SwitchTo(next)
    <3>1. Leaf(next) # None /\ cpu' = Resume(Leaf(next), SavedCtx[Leaf(next)])
      BY <2>4, <2>7, SMTT(30) DEF SwitchTo
    <3>2. Leaf(next) = term_pid[next] /\ Leaf(next) # cur_pid /\ Leaf(next) \in Pid
      BY <2>2, <2>4, <3>1 DEF Alive, Tree, Leaf
    <3>3. SavedCtx[Leaf(next)] = pcb_ctx[Leaf(next)] /\ Parked(Leaf(next))
      <4>1. Parked(Leaf(next))
        BY <2>2, <2>4, <3>1, <3>2, Zenon DEF Alive, Frames
      <4>2. PICK p : p = Leaf(next)
        BY Zenon
      <4>3. pcb_ctx = [q \in Pid |-> pcb_ctx[q]]
        BY <2>2 DEF Alive, TypeOK
      <4>4. SavedCtx[p] = pcb_ctx[p]
        BY <3>2, <4>2, <4>3 DEF SavedCtx
      <4> QED  BY <4>1, <4>2, <4>4, Zenon
    <3> QED  BY <2>1, <3>1, <3>3 DEF Resume, Parked, User
  <2> QED  BY <2>4, <2>5, <2>6, <2>7
<1> QED  BY <1>1, Invariance, PTL DEF Spec, LostOnlyAtLaunch
=============================================================================
