---------------------------- MODULE VideoProofs ----------------------------
(***************************************************************************)
(* What the programs of several terminals share: the video pages, for      *)
(* every number of terminals, every set of drawings and cursor positions,  *)
(* and programs nested to any depth; and the clock, for any number of      *)
(* terminals and any frequencies asked for.                                *)
(***************************************************************************)
EXTENDS Video, Rtc, TLAPS

(* The program at the bottom of a terminal is its base shell. *)
BaseNeverAsked ==
  \A t \in Tid : pcb_flags[t] # <<>> => pcb_flags[t][1] = FALSE

IInv ==
  /\ TypeOK
  /\ MappingFollowsRunning
  /\ CursorFollowsMonitor
  /\ MappedOnlyWhileAsked
  /\ BaseNeverAsked

-----------------------------------------------------------------------------
(* The numbers that stand for terminals and pages. *)
LEMMA PageFacts ==
  /\ 0 \in Tid /\ VIDEO \in Page /\ NoPage \notin Page
  /\ \A t \in Tid : /\ vid_mem_buffer(t) \in Page
                    /\ vid_mem_buffer(t) # VIDEO
                    /\ next_term_to_run(t) \in Tid
  /\ \A t, u \in Tid : t # u => vid_mem_buffer(t) # vid_mem_buffer(u)
BY VideoAssumption DEF Tid, Page, VIDEO, NoPage, vid_mem_buffer, next_term_to_run

(* Each terminal is drawn in a page of its own, whichever is viewed. *)
LEMMA ShownFacts ==
  ASSUME NEW v \in Tid
  PROVE  /\ \A t \in Tid : Shown(t, v) \in Page
         /\ \A t, u \in Tid : t # u => Shown(t, v) # Shown(u, v)
BY PageFacts DEF Shown

(* change_vidmem_mapping overwrites every field of the mapping. *)
LEMMA ChangeMapping ==
  ASSUME TypeOK, NEW m \in Mapping, NEW t \in Tid, NEW v \in Tid,
         NEW n, n = change_vidmem_mapping(m, t, v)
  PROVE  /\ n \in Mapping
         /\ n.screen_ptr = t
         /\ n.pte = Shown(t, v)
         /\ n.present = vidmap_flag[t]
         /\ n.usrmap = Shown(t, v)
         /\ n.tlb_kernel = NoPage
         /\ n.tlb_user = NoPage
<1>1. Shown(t, v) \in Page /\ vidmap_flag[t] \in BOOLEAN
  BY ShownFacts DEF TypeOK
<1> QED
  BY <1>1, Zenon DEF change_vidmem_mapping, flush_tlb, Mapping

(* flush_tlb forgets the cached pages and nothing else. *)
LEMMA FlushMapping ==
  ASSUME NEW m \in Mapping, NEW n, n = flush_tlb(m)
  PROVE  /\ n \in Mapping
         /\ n.screen_ptr = m.screen_ptr
         /\ n.pte = m.pte
         /\ n.present = m.present
         /\ n.usrmap = m.usrmap
         /\ n.tlb_kernel = NoPage
         /\ n.tlb_user = NoPage
BY Zenon DEF flush_tlb, Mapping

(* An access at VIDEO caches the page it reached. *)
LEMMA TouchMapping ==
  ASSUME NEW m \in Mapping, NEW n, n = Touched(m)
  PROVE  /\ n \in Mapping
         /\ n.screen_ptr = m.screen_ptr
         /\ n.pte = m.pte
         /\ n.present = m.present
         /\ n.usrmap = m.usrmap
         /\ n.tlb_kernel = KernelPage(m)
         /\ n.tlb_user = m.tlb_user
         /\ KernelPage(m) \in Page
<1>1. KernelPage(m) \in Page
  BY DEF KernelPage, Mapping
<1> QED
  BY <1>1 DEF Touched, Mapping

(* What characters drawn through a mapping change. *)
LEMMA PutType ==
  ASSUME TypeOK, NEW m \in Mapping, NEW r, NEW c \in Char, NEW p \in Pos,
         nb_putc(m, r, c, p)
  PROVE  page' \in [Page -> Char] /\ cursor' \in [Tid -> Pos] /\ hw_cursor' \in Pos
<1>1. KernelPage(m) \in Page /\ m.screen_ptr \in Tid
  BY TouchMapping DEF Mapping
<1> QED
  BY <1>1 DEF nb_putc, TypeOK

-----------------------------------------------------------------------------
(* Every step keeps the types. *)
LEMMA TypeNext ==
  ASSUME IInv, [Next]_vars
  PROVE  TypeOK'
<1> USE DEF IInv
<1>0. map \in Mapping /\ running \in Tid /\ viewing \in Tid
  BY DEF TypeOK
<1>1. CASE terminal_write
  <2>1. map' \in Mapping
    BY <1>0, <1>1, TouchMapping DEF terminal_write
  <2> QED
    BY <1>0, <1>1, <2>1, PutType, Zenon DEF terminal_write, TypeOK
<1>2. CASE syscall_execute
  <2>1. map' \in Mapping
    BY <1>0, <1>2, FlushMapping DEF syscall_execute
  <2>2. pcb_flags' \in [Tid -> Seq(BOOLEAN)]
    BY <1>0, <1>2 DEF syscall_execute, TypeOK
  <2> QED
    BY <1>2, <2>1, <2>2 DEF syscall_execute, TypeOK
<1>3. CASE syscall_vidmap
  <2>1. [map EXCEPT !.present = TRUE, !.usrmap = Shown(running, viewing)] \in Mapping
    BY <1>0, ShownFacts, Zenon DEF Mapping
  <2>2. map' \in Mapping
    BY <1>3, <2>1, FlushMapping DEF syscall_vidmap, switch_usrmap
  <2>3. pcb_flags' \in [Tid -> Seq(BOOLEAN)]
    <3> DEFINE s == pcb_flags[running]
    <3>1. s \in Seq(BOOLEAN) /\ Len(s) \in Nat /\ Len(s) > 1
      BY <1>0, <1>3 DEF syscall_vidmap, switch_usrmap, TypeOK
    <3>2. [s EXCEPT ![Len(s)] = TRUE] \in Seq(BOOLEAN)
      BY <3>1
    <3> QED
      BY <1>0, <1>3, <3>2 DEF syscall_vidmap, switch_usrmap, TypeOK
  <2> QED
    BY <1>0, <1>3, <2>2, <2>3 DEF syscall_vidmap, switch_usrmap, TypeOK
<1>4. ASSUME syscall_halt
      PROVE  /\ map' \in Mapping
             /\ pcb_flags' \in [Tid -> Seq(BOOLEAN)]
             /\ vidmap_flag' \in [Tid -> BOOLEAN]
  <2> DEFINE f == flush_tlb(map)
             s == pcb_flags[running]
  <2>1. f \in Mapping /\ s \in Seq(BOOLEAN)
    BY <1>0, FlushMapping DEF TypeOK
  <2>2. CASE HaltBase
    BY <1>0, <2>1, <2>2 DEF HaltBase, TypeOK
  <2>3. CASE HaltChild
    <3>1. /\ Len(s) > 1
          /\ pcb_flags' = [pcb_flags EXCEPT ![running] = SubSeq(s, 1, Len(s) - 1)]
          /\ ReleaseVidmap(f, s[Len(s)])
      BY <2>3 DEF HaltChild
    <3>2. SubSeq(s, 1, Len(s) - 1) \in Seq(BOOLEAN)
      BY <2>1, <3>1
    <3>3. [f EXCEPT !.present = FALSE, !.usrmap = Shown(running, viewing)] \in Mapping
      BY <1>0, <2>1, ShownFacts, Zenon DEF Mapping
    <3> QED
      BY <1>0, <2>1, <3>1, <3>2, <3>3, Zenon DEF ReleaseVidmap, switch_usrmap, TypeOK
  <2> QED
    BY <1>4, <2>2, <2>3 DEF syscall_halt
<1>5. CASE Halt
  BY <1>4, <1>5 DEF Halt, TypeOK
<1>6. CASE Exception
  BY <1>0, <1>4, <1>6, PutType, Zenon DEF Exception, TypeOK
<1>7. CASE DrawAtFishMap
  <2> DEFINE pg == IF map.tlb_user = NoPage THEN map.usrmap ELSE map.tlb_user
  <2>1. pg \in Page
    BY <1>0 DEF Mapping
  <2>2. [map EXCEPT !.tlb_user = pg] \in Mapping
    BY <1>0, <2>1 DEF Mapping
  <2> QED
    BY <1>7, <2>1, <2>2 DEF DrawAtFishMap, TypeOK
<1>8. ASSUME NEW c \in Char, NEW p \in Pos, DrawOnMonitor(c, p)
      PROVE  TypeOK'
  <2> DEFINE m == change_vidmem_mapping(map, viewing, viewing)
  <2>1. m \in Mapping /\ m.screen_ptr \in Tid
    BY <1>0, ChangeMapping
  <2>2. Touched(m) \in Mapping /\ KernelPage(m) \in Page
    BY <2>1, TouchMapping
  <2>3. map' \in Mapping
    BY <1>0, <1>8, <2>2, ChangeMapping DEF DrawOnMonitor
  <2> QED
    BY <1>8, <2>1, <2>2, <2>3 DEF DrawOnMonitor, TypeOK
<1>9. CASE EchoKey \/ clear
  BY <1>8, <1>9, VideoAssumption DEF EchoKey, clear
<1>10. CASE SwitchTerminal
  <2>1. PICK t \in Tid : switch_terminal(t)
    BY <1>10 DEF SwitchTerminal
  <2> DEFINE m == change_vidmem_mapping(map, viewing, viewing)
  <2>2. m \in Mapping
    BY <1>0, ChangeMapping
  <2>3. Touched(m) \in Mapping /\ KernelPage(m) \in Page
    BY <2>2, TouchMapping
  <2>4. map' \in Mapping
    BY <1>0, <2>1, <2>3, ChangeMapping DEF switch_terminal
  <2> QED
    BY <1>0, <2>1, <2>3, <2>4, PageFacts, Zenon DEF switch_terminal, TypeOK
<1>11. CASE Tick
  <2> DEFINE next == next_term_to_run(running)
             m == change_vidmem_mapping(map, next, viewing)
  <2>1. next \in Tid
    BY <1>0, PageFacts
  <2>2. m \in Mapping
    BY <1>0, <2>1, ChangeMapping
  <2>3. flush_tlb(m) \in Mapping
    BY <2>2, FlushMapping
  <2> HIDE DEF next, m
  <2>4. map' \in Mapping /\ running' \in Tid /\ viewing' = viewing
        /\ vidmap_flag' = vidmap_flag
    BY <1>11, <2>1, <2>3 DEF Tick, next, m
  <2>5. CASE pcb_flags[next] = <<>>
    <3>1. PICK c \in Char, p \in Pos : nb_putc(m, next, c, p)
      BY <1>11, <2>5 DEF Tick, next, m
    <3>2. pcb_flags' = [pcb_flags EXCEPT ![next] = <<FALSE>>]
      BY <1>11, <2>5, Zenon DEF Tick, next
    <3>3. <<FALSE>> \in Seq(BOOLEAN)
      OBVIOUS
    <3> QED
      BY <2>1, <2>2, <2>4, <3>1, <3>2, <3>3, PutType, Zenon DEF TypeOK
  <2>6. CASE pcb_flags[next] # <<>>
    BY <1>11, <2>4, <2>6 DEF Tick, next, TypeOK
  <2> QED
    BY <2>5, <2>6
<1>12. CASE UNCHANGED vars
  BY <1>12 DEF vars, TypeOK
<1> QED
  BY <1>1, <1>2, <1>3, <1>5, <1>6, <1>7, <1>9, <1>10, <1>11, <1>12 DEF Next

-----------------------------------------------------------------------------
(* Every step leaves the mapping on the running terminal. *)
LEMMA MappingNext ==
  ASSUME IInv, [Next]_vars
  PROVE  MappingFollowsRunning'
<1> USE DEF IInv
<1>0. /\ map \in Mapping /\ running \in Tid /\ viewing \in Tid
      /\ Shown(running, viewing) \in Page /\ NoPage \notin Page
  BY ShownFacts, PageFacts DEF TypeOK
<1>1. CASE terminal_write
  BY <1>0, <1>1, TouchMapping
  DEF terminal_write, MappingFollowsRunning, KernelPage, HasProgram, Mapping
<1>2. CASE syscall_execute
  <2>1. pcb_flags[running] # <<>>
    BY <1>2 DEF syscall_execute, HasProgram
  <2> QED
    BY <1>0, <1>2, <2>1, FlushMapping, Zenon
    DEF syscall_execute, MappingFollowsRunning, HasProgram
<1>3. CASE syscall_vidmap
  <2> DEFINE m == [map EXCEPT !.present = TRUE, !.usrmap = Shown(running, viewing)]
  <2>1. /\ m \in Mapping /\ m.screen_ptr = map.screen_ptr /\ m.pte = map.pte
        /\ m.present = TRUE /\ m.usrmap = Shown(running, viewing)
    BY <1>0, Zenon DEF Mapping
  <2>2. /\ map'.screen_ptr = map.screen_ptr /\ map'.pte = map.pte
        /\ map'.present = TRUE /\ map'.usrmap = Shown(running, viewing)
        /\ map'.tlb_kernel = NoPage /\ map'.tlb_user = NoPage
    BY <1>3, <2>1, FlushMapping, Zenon DEF syscall_vidmap, switch_usrmap
  <2>3. vidmap_flag'[running] = TRUE /\ running' = running /\ viewing' = viewing
    BY <1>0, <1>3 DEF syscall_vidmap, switch_usrmap, TypeOK
  <2> QED
    BY <2>2, <2>3, Zenon DEF MappingFollowsRunning
<1>4. ASSUME syscall_halt, running' = running, viewing' = viewing
      PROVE  MappingFollowsRunning'
  <2> DEFINE f == flush_tlb(map)
             asked == pcb_flags[running][Len(pcb_flags[running])]
  <2>1. /\ f \in Mapping /\ f.screen_ptr = map.screen_ptr /\ f.pte = map.pte
        /\ f.present = map.present /\ f.usrmap = map.usrmap
        /\ f.tlb_kernel = NoPage /\ f.tlb_user = NoPage
    BY <1>0, FlushMapping
  <2>2. pcb_flags[running] # <<>>
    <3>1. Len(pcb_flags[running]) = 1 \/ Len(pcb_flags[running]) > 1
      BY <1>4, Zenon DEF syscall_halt, HaltBase, HaltChild
    <3> QED
      BY <3>1
  <2>3. CASE HaltBase
    BY <1>4, <2>1, <2>2, <2>3 DEF HaltBase, MappingFollowsRunning, HasProgram
  <2>4. CASE HaltChild
    <3>1. ReleaseVidmap(f, asked)
      BY <2>4 DEF HaltChild
    <3> HIDE DEF f, asked
    <3>2. CASE ~asked
      BY <1>4, <2>1, <2>2, <3>1, <3>2
      DEF ReleaseVidmap, switch_usrmap, MappingFollowsRunning, HasProgram
    <3>3. CASE asked
      <4>1. map' = [f EXCEPT !.present = FALSE, !.usrmap = Shown(running, viewing)]
        BY <3>1, <3>3 DEF ReleaseVidmap, switch_usrmap
      <4>2. /\ map'.screen_ptr = map.screen_ptr /\ map'.pte = map.pte
            /\ map'.present = FALSE /\ map'.usrmap = Shown(running, viewing)
            /\ map'.tlb_kernel = NoPage /\ map'.tlb_user = NoPage
        BY <2>1, <4>1 DEF Mapping
      <4>3. vidmap_flag'[running] = FALSE
        BY <1>0, <3>1, <3>3 DEF ReleaseVidmap, switch_usrmap, TypeOK
      <4> QED
        BY <1>4, <4>2, <4>3, Zenon DEF MappingFollowsRunning
    <3> QED
      BY <3>2, <3>3
  <2> QED
    BY <1>4, <2>3, <2>4 DEF syscall_halt
<1>5. CASE Halt
  BY <1>4, <1>5 DEF Halt
<1>6. CASE Exception
  BY <1>4, <1>6 DEF Exception
<1>7. CASE DrawAtFishMap
  <2> DEFINE pg == IF map.tlb_user = NoPage THEN map.usrmap ELSE map.tlb_user
  <2>1. map' = [map EXCEPT !.tlb_user = pg] /\ (map.present \/ map.tlb_user # NoPage)
    BY <1>7 DEF DrawAtFishMap
  <2>2. pg = map.usrmap /\ map.present
    BY <1>0, <2>1 DEF MappingFollowsRunning, Mapping
  <2> HIDE DEF pg
  <2>3. /\ map'.screen_ptr = map.screen_ptr /\ map'.pte = map.pte
        /\ map'.present = map.present /\ map'.usrmap = map.usrmap
        /\ map'.tlb_kernel = map.tlb_kernel /\ map'.tlb_user = pg
    BY <1>0, <2>1 DEF Mapping
  <2> QED
    BY <1>7, <2>2, <2>3, Zenon DEF DrawAtFishMap, MappingFollowsRunning, HasProgram
<1>8. ASSUME NEW c \in Char, NEW p \in Pos, DrawOnMonitor(c, p)
      PROVE  MappingFollowsRunning'
  <2> DEFINE m == change_vidmem_mapping(map, viewing, viewing)
  <2>1. m \in Mapping
    BY <1>0, ChangeMapping
  <2>2. Touched(m) \in Mapping
    BY <2>1, TouchMapping
  <2>3. /\ map' = change_vidmem_mapping(Touched(m), running, viewing)
        /\ UNCHANGED <<running, viewing, vidmap_flag, pcb_flags>>
    BY <1>8 DEF DrawOnMonitor
  <2> QED
    BY <1>0, <2>2, <2>3, ChangeMapping DEF MappingFollowsRunning
<1>9. CASE EchoKey \/ clear
  BY <1>8, <1>9, VideoAssumption DEF EchoKey, clear
<1>10. CASE SwitchTerminal
  <2>1. PICK target \in Tid : switch_terminal(target)
    BY <1>10 DEF SwitchTerminal
  <2> DEFINE m == change_vidmem_mapping(map, viewing, viewing)
  <2>2. m \in Mapping
    BY <1>0, ChangeMapping
  <2>3. Touched(m) \in Mapping
    BY <2>2, TouchMapping
  <2>4. /\ map' = change_vidmem_mapping(Touched(m), running, target)
        /\ viewing' = target /\ UNCHANGED <<running, vidmap_flag, pcb_flags>>
    BY <2>1 DEF switch_terminal
  <2> HIDE DEF m
  <2>5. /\ map'.screen_ptr = running /\ map'.pte = Shown(running, target)
        /\ map'.present = vidmap_flag[running]
        /\ map'.usrmap = Shown(running, target)
        /\ map'.tlb_kernel = NoPage /\ map'.tlb_user = NoPage
    <3>1. target \in Tid
      BY <2>1
    <3>2. map' = change_vidmem_mapping(Touched(m), running, target)
      BY <2>4
    <3> QED
      BY <1>0, <2>3, <3>1, <3>2, ChangeMapping DEF Mapping
  <2> QED
    BY <2>4, <2>5 DEF MappingFollowsRunning
<1>11. CASE Tick
  <2> DEFINE next == next_term_to_run(running)
             m == change_vidmem_mapping(map, next, viewing)
  <2>1. next \in Tid
    BY <1>0, PageFacts
  <2>2. /\ m \in Mapping /\ m.screen_ptr = next /\ m.pte = Shown(next, viewing)
        /\ m.present = vidmap_flag[next] /\ m.usrmap = Shown(next, viewing)
    BY <1>0, <2>1, ChangeMapping
  <2>3. running' = next /\ map' = flush_tlb(m) /\ UNCHANGED <<viewing, vidmap_flag>>
    BY <1>11 DEF Tick
  <2> HIDE DEF next, m
  <2> QED
    BY <2>2, <2>3, FlushMapping DEF MappingFollowsRunning
<1>12. CASE UNCHANGED vars
  BY <1>12 DEF vars, MappingFollowsRunning, HasProgram
<1> QED
  BY <1>1, <1>2, <1>3, <1>5, <1>6, <1>7, <1>9, <1>10, <1>11, <1>12 DEF Next

-----------------------------------------------------------------------------
(* Characters of the running terminal move the monitor's cursor only when  *)
(* that terminal is viewed.                                                *)
LEMMA PutCursor ==
  ASSUME TypeOK, NEW m \in Mapping, NEW r \in Tid, m.screen_ptr = r,
         NEW c \in Char, NEW p \in Pos, nb_putc(m, r, c, p)
  PROVE  /\ viewing = r => hw_cursor' = cursor'[viewing]
         /\ viewing # r => hw_cursor' = hw_cursor /\ cursor'[viewing] = cursor[viewing]
BY DEF nb_putc, TypeOK

LEMMA CursorNext ==
  ASSUME IInv, [Next]_vars
  PROVE  CursorFollowsMonitor'
<1> USE DEF IInv
<1>0. /\ map \in Mapping /\ running \in Tid /\ viewing \in Tid
      /\ map.screen_ptr = running
  BY DEF TypeOK, MappingFollowsRunning
<1>1. CASE terminal_write
  <2>1. PICK c \in Char, p \in Pos : nb_putc(map, running, c, p)
    BY <1>1 DEF terminal_write
  <2>2. UNCHANGED <<viewing, pcb_flags>>
    BY <1>1 DEF terminal_write
  <2> QED
    BY <1>0, <2>1, <2>2, PutCursor DEF CursorFollowsMonitor
<1>2. CASE syscall_execute
  BY <1>0, <1>2, Zenon DEF syscall_execute, CursorFollowsMonitor, HasProgram, TypeOK
<1>3. CASE syscall_vidmap
  <2>1. UNCHANGED <<viewing, hw_cursor, cursor>>
    BY <1>3 DEF syscall_vidmap, switch_usrmap
  <2>2. pcb_flags'[viewing] # <<>> => pcb_flags[viewing] # <<>>
    <3>1. CASE viewing # running
      BY <1>0, <1>3, <3>1 DEF syscall_vidmap, switch_usrmap, TypeOK
    <3>2. CASE viewing = running
      BY <1>3, <3>2 DEF syscall_vidmap, switch_usrmap
    <3> QED
      BY <3>1, <3>2
  <2> QED
    BY <2>1, <2>2 DEF CursorFollowsMonitor
<1>4. ASSUME syscall_halt
      PROVE  pcb_flags'[viewing] # <<>> => pcb_flags[viewing] # <<>>
  <2>1. CASE viewing # running
    BY <1>0, <1>4, <2>1, Zenon DEF syscall_halt, HaltBase, HaltChild, TypeOK
  <2>2. CASE viewing = running
    <3>1. Len(pcb_flags[running]) = 1 \/ Len(pcb_flags[running]) > 1
      BY <1>4, Zenon DEF syscall_halt, HaltBase, HaltChild
    <3> QED
      BY <2>2, <3>1
  <2> QED
    BY <2>1, <2>2
<1>5. CASE Halt
  BY <1>4, <1>5 DEF Halt, CursorFollowsMonitor
<1>6. CASE Exception
  <2>1. PICK c \in Char, p \in Pos : nb_putc(map, running, c, p)
    BY <1>6 DEF Exception
  <2>2. viewing' = viewing
    BY <1>6 DEF Exception
  <2>3. pcb_flags'[viewing] # <<>> => pcb_flags[viewing] # <<>>
    BY <1>4, <1>6 DEF Exception
  <2> QED
    BY <1>0, <2>1, <2>2, <2>3, PutCursor DEF CursorFollowsMonitor
<1>7. CASE DrawAtFishMap
  BY <1>7 DEF DrawAtFishMap, CursorFollowsMonitor
<1>8. ASSUME NEW c \in Char, NEW p \in Pos, DrawOnMonitor(c, p)
      PROVE  CursorFollowsMonitor'
  <2> DEFINE m == change_vidmem_mapping(map, viewing, viewing)
  <2>1. m.screen_ptr = viewing
    BY <1>0, ChangeMapping
  <2> QED
    BY <1>0, <1>8, <2>1 DEF DrawOnMonitor, CursorFollowsMonitor, TypeOK
<1>9. CASE EchoKey \/ clear
  BY <1>8, <1>9, VideoAssumption DEF EchoKey, clear
<1>10. CASE SwitchTerminal
  BY <1>10 DEF SwitchTerminal, switch_terminal, CursorFollowsMonitor
<1>11. CASE Tick
  <2> DEFINE next == next_term_to_run(running)
             m == change_vidmem_mapping(map, next, viewing)
  <2>1. next \in Tid
    BY <1>0, PageFacts
  <2>2. m \in Mapping /\ m.screen_ptr = next
    BY <1>0, <2>1, ChangeMapping
  <2>3. viewing' = viewing
    BY <1>11 DEF Tick
  <2> HIDE DEF next, m
  <2>4. CASE pcb_flags[next] = <<>>
    <3>1. PICK c \in Char, p \in Pos : nb_putc(m, next, c, p)
      BY <1>11, <2>4 DEF Tick, next, m
    <3>2. pcb_flags' = [pcb_flags EXCEPT ![next] = <<FALSE>>]
      BY <1>11, <2>4, Zenon DEF Tick, next
    <3>3. viewing # next => pcb_flags'[viewing] = pcb_flags[viewing]
      BY <1>0, <3>2 DEF TypeOK
    <3> QED
      BY <1>0, <2>1, <2>2, <2>3, <3>1, <3>3, PutCursor DEF CursorFollowsMonitor
  <2>5. CASE pcb_flags[next] # <<>>
    BY <1>11, <2>3, <2>5 DEF Tick, next, CursorFollowsMonitor
  <2> QED
    BY <2>4, <2>5
<1>12. CASE UNCHANGED vars
  BY <1>12 DEF vars, CursorFollowsMonitor
<1> QED
  BY <1>1, <1>2, <1>3, <1>5, <1>6, <1>7, <1>9, <1>10, <1>11, <1>12 DEF Next

-----------------------------------------------------------------------------
(* Stacks of flags, as execute, vidmap and halt change them. *)
LEMMA FlagStack ==
  ASSUME NEW s \in Seq(BOOLEAN)
  PROVE  /\ Len(s) \in Nat
         /\ DOMAIN s = 1..Len(s)
         /\ Len(s) = 0 <=> s = <<>>
OBVIOUS

LEMMA PushFlag ==
  ASSUME NEW s \in Seq(BOOLEAN), NEW n, n = Append(s, FALSE)
  PROVE  /\ DOMAIN n = 1..(Len(s) + 1)
         /\ \A i \in 1..Len(s) : n[i] = s[i]
OBVIOUS

LEMMA SetFlag ==
  ASSUME NEW s \in Seq(BOOLEAN), Len(s) > 1, NEW n, n = [s EXCEPT ![Len(s)] = TRUE]
  PROVE  /\ DOMAIN n = 1..Len(s)
         /\ n[1] = s[1]
         /\ n[Len(s)] = TRUE
<1>1. /\ Len(s) \in Nat /\ DOMAIN s = 1..Len(s) /\ Len(s) # 1
      /\ Len(s) \in DOMAIN s /\ 1 \in DOMAIN s
  BY FlagStack
<1>2. ASSUME NEW k \in DOMAIN s, k # 1, 1 \in DOMAIN s, n = [s EXCEPT ![k] = TRUE]
      PROVE  DOMAIN n = DOMAIN s /\ n[1] = s[1] /\ n[k] = TRUE
  BY <1>2, Zenon
<1> QED
  BY <1>1, <1>2

(* What the steps do to the flags: only vidmap sets one, and never that of *)
(* a base shell.                                                           *)
LEMMA FlagsNext ==
  ASSUME IInv, [Next]_vars
  PROVE  MappedOnlyWhileAsked' /\ BaseNeverAsked'
<1> USE DEF IInv
<1>0. /\ running \in Tid /\ pcb_flags \in [Tid -> Seq(BOOLEAN)]
      /\ vidmap_flag \in [Tid -> BOOLEAN] /\ pcb_flags[running] \in Seq(BOOLEAN)
  BY DEF TypeOK
<1> DEFINE s == pcb_flags[running]
<1>1. ASSUME UNCHANGED <<pcb_flags, vidmap_flag>>
      PROVE  MappedOnlyWhileAsked' /\ BaseNeverAsked'
  BY <1>1 DEF MappedOnlyWhileAsked, BaseNeverAsked
(* A step that changes the running terminal's flags only, as it should. *)
<1>2. ASSUME NEW r \in Tid, NEW n,
             pcb_flags' = [pcb_flags EXCEPT ![r] = n],
             n # <<>> => n[1] = FALSE,
             \A t \in Tid \ {r} : vidmap_flag'[t] = vidmap_flag[t],
             vidmap_flag'[r] => \E i \in DOMAIN n : n[i]
      PROVE  MappedOnlyWhileAsked' /\ BaseNeverAsked'
  <2>1. pcb_flags'[r] = n /\ \A t \in Tid \ {r} : pcb_flags'[t] = pcb_flags[t]
    BY <1>0, <1>2
  <2>2. MappedOnlyWhileAsked'
    BY <1>2, <2>1 DEF MappedOnlyWhileAsked
  <2>3. BaseNeverAsked'
    BY <1>2, <2>1 DEF BaseNeverAsked
  <2> QED
    BY <2>2, <2>3
<1>3. CASE syscall_execute
  <2> DEFINE n == Append(s, FALSE)
  <2>1. /\ pcb_flags' = [pcb_flags EXCEPT ![running] = n] /\ s # <<>>
        /\ vidmap_flag' = vidmap_flag
    BY <1>3 DEF syscall_execute, HasProgram
  <2>2. /\ Len(s) \in Nat \ {0} /\ DOMAIN s = 1..Len(s) /\ DOMAIN n = 1..(Len(s) + 1)
        /\ \A i \in DOMAIN s : n[i] = s[i]
    <3> HIDE DEF s, n
    <3>1. s \in Seq(BOOLEAN) /\ s # <<>> /\ n = Append(s, FALSE)
      BY <1>0, <2>1 DEF s, n
    <3> QED
      BY <3>1, FlagStack, PushFlag, Zenon
  <2>3. n[1] = FALSE
    BY <1>0, <2>1, <2>2 DEF BaseNeverAsked
  <2>4. vidmap_flag'[running] => \E i \in DOMAIN n : n[i]
    <3>1. vidmap_flag[running] => \E i \in DOMAIN s : s[i]
      BY <1>0 DEF MappedOnlyWhileAsked
    <3> HIDE DEF s, n
    <3>2. \A i \in DOMAIN s : i \in DOMAIN n
      BY <2>2
    <3> QED
      BY <2>1, <2>2, <3>1, <3>2, Zenon
  <2> HIDE DEF n
  <2> QED
    BY <1>0, <1>2, <2>1, <2>3, <2>4, Zenon
<1>4. CASE syscall_vidmap
  <2> DEFINE n == [s EXCEPT ![Len(s)] = TRUE]
  <2>1. /\ pcb_flags' = [pcb_flags EXCEPT ![running] = n] /\ Len(s) > 1
        /\ vidmap_flag' = [vidmap_flag EXCEPT ![running] = TRUE]
    BY <1>0, <1>4 DEF syscall_vidmap, switch_usrmap
  <2>2. /\ Len(s) \in Nat \ {0, 1} /\ DOMAIN s = 1..Len(s) /\ DOMAIN n = 1..Len(s)
        /\ n[1] = s[1] /\ n[Len(s)] = TRUE
    <3> HIDE DEF s, n
    <3>1. s \in Seq(BOOLEAN) /\ Len(s) > 1 /\ n = [s EXCEPT ![Len(s)] = TRUE]
      BY <1>0, <2>1 DEF s, n
    <3>2. DOMAIN n = 1..Len(s) /\ n[1] = s[1] /\ n[Len(s)] = TRUE
      BY <3>1, SetFlag, Zenon
    <3>3. Len(s) \in Nat \ {0, 1} /\ DOMAIN s = 1..Len(s)
      BY <3>1, FlagStack
    <3> QED
      BY <3>2, <3>3
  <2>3. n[1] = FALSE
    BY <1>0, <2>2 DEF BaseNeverAsked
  <2>4. \E i \in DOMAIN n : n[i]
    BY <2>2
  <2>5. \A t \in Tid \ {running} : vidmap_flag'[t] = vidmap_flag[t]
    BY <1>0, <2>1
  <2> HIDE DEF n
  <2> QED
    BY <1>0, <1>2, <2>1, <2>3, <2>4, <2>5, Zenon
<1>5. ASSUME HaltBase
      PROVE  MappedOnlyWhileAsked' /\ BaseNeverAsked'
  <2>1. /\ Len(s) = 1 /\ pcb_flags' = [pcb_flags EXCEPT ![running] = <<FALSE>>]
        /\ vidmap_flag' = vidmap_flag
    BY <1>5 DEF HaltBase
  <2>2. DOMAIN s = {1} /\ s # <<>>
    <3>1. DOMAIN s = 1..1 /\ s # <<>>
      <4> HIDE DEF s
      <4>1. s \in Seq(BOOLEAN) /\ Len(s) = 1
        BY <1>0, <2>1 DEF s
      <4> QED
        BY <4>1, FlagStack
    <3> QED
      BY <3>1
  <2>3. ~ vidmap_flag[running]
    <3>1. s[1] = FALSE
      BY <1>0, <2>2 DEF BaseNeverAsked
    <3>2. vidmap_flag[running] => \E i \in DOMAIN s : s[i]
      BY <1>0 DEF MappedOnlyWhileAsked
    <3> QED
      BY <2>2, <3>1, <3>2
  <2>4. <<FALSE>>[1] = FALSE
    OBVIOUS
  <2> QED
    BY <1>0, <1>2, <2>1, <2>3, <2>4, Zenon
<1>6. ASSUME HaltChild
      PROVE  MappedOnlyWhileAsked' /\ BaseNeverAsked'
  <2> DEFINE k == Len(s)
             n == SubSeq(s, 1, k - 1)
  <2>1. /\ k > 1 /\ pcb_flags' = [pcb_flags EXCEPT ![running] = n]
        /\ ReleaseVidmap(flush_tlb(map), s[k])
    BY <1>6 DEF HaltChild
  <2>2. /\ k \in Nat \ {0, 1} /\ DOMAIN s = 1..k /\ DOMAIN n = 1..(k - 1)
        /\ \A i \in 1..(k - 1) : n[i] = s[i]
    BY <1>0, <2>1
  <2>3. n[1] = FALSE
    BY <1>0, <2>1, <2>2 DEF BaseNeverAsked
  <2>4. /\ s[k] => ~ vidmap_flag'[running]
        /\ ~ s[k] => vidmap_flag' = vidmap_flag
        /\ \A t \in Tid \ {running} : vidmap_flag'[t] = vidmap_flag[t]
    BY <1>0, <2>1 DEF ReleaseVidmap, switch_usrmap
  <2>5. vidmap_flag'[running] => \E i \in DOMAIN n : n[i]
    <3>1. vidmap_flag[running] => \E i \in DOMAIN s : s[i]
      BY <1>0 DEF MappedOnlyWhileAsked
    <3>2. \A i \in DOMAIN s : i # k => i \in DOMAIN n /\ n[i] = s[i]
      BY <2>2
    <3> HIDE DEF s, n, k
    <3> QED
      BY <2>4, <3>1, <3>2, Zenon
  <2> HIDE DEF n
  <2> QED
    BY <1>0, <1>2, <2>1, <2>3, <2>4, <2>5, Zenon
<1>7. CASE Tick
  <2> DEFINE next == next_term_to_run(running)
  <2>1. next \in Tid
    BY <1>0, PageFacts
  <2>2. vidmap_flag' = vidmap_flag
    BY <1>7 DEF Tick
  <2>3. CASE pcb_flags[next] = <<>>
    <3>1. pcb_flags' = [pcb_flags EXCEPT ![next] = <<FALSE>>]
      BY <1>7, <2>3, Zenon DEF Tick
    <3>2. DOMAIN pcb_flags[next] = {}
      BY <2>3
    <3>3. ~ vidmap_flag[next]
      BY <2>1, <3>2 DEF MappedOnlyWhileAsked
    <3>4. <<FALSE>>[1] = FALSE
      OBVIOUS
    <3> HIDE DEF next
    <3> QED
      BY <1>2, <2>1, <2>2, <3>1, <3>3, <3>4, Zenon
  <2>4. CASE pcb_flags[next] # <<>>
    BY <1>1, <1>7, <2>2, <2>4 DEF Tick
  <2> QED
    BY <2>3, <2>4
<1>8. CASE terminal_write \/ DrawAtFishMap \/ EchoKey \/ clear \/ SwitchTerminal
           \/ UNCHANGED vars
  BY <1>1, <1>8
  DEF terminal_write, DrawAtFishMap, EchoKey, clear, DrawOnMonitor, SwitchTerminal,
      switch_terminal, vars
<1>9. CASE Halt \/ Exception
  BY <1>5, <1>6, <1>9 DEF Halt, Exception, syscall_halt
<1> QED
  BY <1>3, <1>4, <1>7, <1>8, <1>9 DEF Next

-----------------------------------------------------------------------------
(* The inductive invariant. *)
LEMMA Invariance == Spec => []IInv
<1>1. Init => IInv
  <2> SUFFICES ASSUME Init PROVE IInv
    OBVIOUS
  <2>1. map \in Mapping
    BY PageFacts DEF Init, Mapping
  <2>2. TypeOK
    BY <2>1, PageFacts, VideoAssumption DEF Init, TypeOK
  <2>3. MappingFollowsRunning
    BY PageFacts DEF Init, MappingFollowsRunning, Shown, HasProgram
  <2>4. CursorFollowsMonitor /\ MappedOnlyWhileAsked /\ BaseNeverAsked
    BY PageFacts DEF Init, CursorFollowsMonitor, MappedOnlyWhileAsked, BaseNeverAsked
  <2> QED
    BY <2>2, <2>3, <2>4 DEF IInv
<1>2. IInv /\ [Next]_vars => IInv'
  BY TypeNext, MappingNext, CursorNext, FlagsNext DEF IInv
<1> QED
  BY <1>1, <1>2, PTL DEF Spec

(***************************************************************************)
(* Pages, cursors and mappings stay in range for any number of terminals.  *)
(***************************************************************************)
THEOREM TypeCorrect == Spec => []TypeOK
<1>1. IInv => TypeOK
  BY DEF IInv
<1> QED
  BY <1>1, Invariance, PTL

(***************************************************************************)
(* Between handlers the kernel and the running program reach the running   *)
(* terminal's page and cursor, whatever switch_terminal, the keyboard      *)
(* handler, the timer, vidmap, execute and halt did before.                *)
(***************************************************************************)
THEOREM MappingFollows == Spec => []MappingFollowsRunning
<1>1. IInv => MappingFollowsRunning
  BY DEF IInv
<1> QED
  BY <1>1, Invariance, PTL

(***************************************************************************)
(* nb_putc, calib_cursor and switch_terminal keep the monitor's cursor on  *)
(* the viewed terminal's.                                                  *)
(***************************************************************************)
THEOREM CursorFollows == Spec => []CursorFollowsMonitor
<1>1. IInv => CursorFollowsMonitor
  BY DEF IInv
<1> QED
  BY <1>1, Invariance, PTL

(***************************************************************************)
(* halt closes the page vidmap opened at the latest when the last program  *)
(* that asked for it has gone.                                             *)
(***************************************************************************)
THEOREM MappedWhileAsked == Spec => []MappedOnlyWhileAsked
<1>1. IInv => MappedOnlyWhileAsked
  BY DEF IInv
<1> QED
  BY <1>1, Invariance, PTL

-----------------------------------------------------------------------------
(* Drawing on the page of a terminal is drawing on its screen. *)
LEMMA DrawStep ==
  ASSUME TypeOK, NEW r \in Tid, NEW c \in Char, NEW p \in Pos,
         page' = [page EXCEPT ![Shown(r, viewing)] = c],
         cursor' = [cursor EXCEPT ![r] = p],
         viewing' = viewing
  PROVE  Scr!Draw(r)
<1>1. viewing \in Tid /\ page \in [Page -> Char]
  BY DEF TypeOK
<1>2. \A t \in Tid : page'[Shown(t, viewing)] = IF t = r THEN c ELSE page[Shown(t, viewing)]
  BY <1>1, ShownFacts
<1>3. [t \in Tid |-> page'[Shown(t, viewing')]] =
        [[t \in Tid |-> page[Shown(t, viewing)]] EXCEPT ![r] = c]
  BY <1>2, Zenon
<1> QED
  BY <1>3, Zenon DEF Scr!Draw

(* Nothing drawn, nothing moved. *)
LEMMA QuietStep ==
  ASSUME UNCHANGED <<page, cursor, viewing>>
  PROVE  /\ [t \in Tid |-> page'[Shown(t, viewing')]] = [t \in Tid |-> page[Shown(t, viewing)]]
         /\ UNCHANGED cursor
OBVIOUS

(* The running program, or the kernel for it, draws on its own terminal. *)
LEMMA PutStep ==
  ASSUME IInv, NEW c \in Char, NEW p \in Pos, nb_putc(map, running, c, p),
         UNCHANGED <<viewing, running>>
  PROVE  Scr!Next
<1>1. /\ TypeOK /\ running \in Tid /\ map \in Mapping
      /\ map.screen_ptr = running /\ KernelPage(map) = Shown(running, viewing)
  BY DEF IInv, TypeOK, MappingFollowsRunning, KernelPage
<1>2. Scr!Draw(running)
  BY <1>1, DrawStep, Zenon DEF nb_putc
<1> QED
  BY <1>2 DEF Scr!Next, Scr!Put

(***************************************************************************)
(* Each handler's page table changes and copies amount to one step of      *)
(* Screens, or to none.                                                    *)
(***************************************************************************)
LEMMA ScreensStep ==
  ASSUME IInv, Next
  PROVE  Scr!Next \/ UNCHANGED Scr!vars
<1>0. /\ TypeOK /\ map \in Mapping /\ running \in Tid /\ viewing \in Tid
      /\ page \in [Page -> Char] /\ cursor \in [Tid -> Pos]
  BY DEF IInv, TypeOK
<1>1. CASE terminal_write
  BY <1>1, PutStep DEF terminal_write
<1>2. CASE syscall_execute \/ syscall_vidmap \/ Halt
  <2>1. UNCHANGED <<page, cursor, viewing, running>>
    BY <1>2, Zenon DEF syscall_execute, syscall_vidmap, Halt
  <2> QED
    BY <2>1, QuietStep DEF Scr!vars
<1>3. CASE Exception
  BY <1>3, PutStep DEF Exception
<1>4. CASE DrawAtFishMap
  <2> DEFINE pg == IF map.tlb_user = NoPage THEN map.usrmap ELSE map.tlb_user
  <2>1. pg = Shown(running, viewing)
    BY DEF IInv, MappingFollowsRunning
  <2>2. PICK c \in Char : page' = [page EXCEPT ![pg] = c]
    BY <1>4, Zenon DEF DrawAtFishMap
  <2>3. UNCHANGED <<cursor, viewing, running>>
    BY <1>4 DEF DrawAtFishMap
  <2>4. cursor' = [cursor EXCEPT ![running] = cursor[running]] /\ cursor[running] \in Pos
    BY <1>0, <2>3
  <2> HIDE DEF pg
  <2>5. Scr!Draw(running)
    BY <1>0, <2>1, <2>2, <2>3, <2>4, DrawStep, Zenon
  <2> QED
    BY <2>3, <2>5 DEF Scr!Next, Scr!Put
<1>5. ASSUME NEW c \in Char, NEW p \in Pos, DrawOnMonitor(c, p)
      PROVE  Scr!Next
  <2> DEFINE m == change_vidmem_mapping(map, viewing, viewing)
  <2>1. m.screen_ptr = viewing /\ KernelPage(m) = Shown(viewing, viewing)
    BY <1>0, ChangeMapping DEF KernelPage
  <2> HIDE DEF m
  <2>2. /\ page' = [page EXCEPT ![Shown(viewing, viewing)] = c]
        /\ cursor' = [cursor EXCEPT ![viewing] = p]
        /\ UNCHANGED <<viewing, running>>
    BY <1>5, <2>1 DEF DrawOnMonitor, m
  <2>3. Scr!Draw(viewing)
    BY <1>0, <2>2, DrawStep, Zenon
  <2> QED
    BY <2>2, <2>3 DEF Scr!Next, Scr!Put
<1>6. CASE EchoKey \/ clear
  BY <1>5, <1>6, VideoAssumption DEF EchoKey, clear
<1>7. CASE SwitchTerminal
  <2>1. PICK target \in Tid : switch_terminal(target)
    BY <1>7 DEF SwitchTerminal
  <2> DEFINE m == change_vidmem_mapping(map, viewing, viewing)
             saved == [page EXCEPT ![vid_mem_buffer(viewing)] = page[VIDEO]]
  <2>2. KernelPage(m) = VIDEO
    <3>1. m.tlb_kernel = NoPage /\ m.pte = Shown(viewing, viewing)
      BY <1>0, ChangeMapping
    <3> QED
      BY <3>1 DEF KernelPage, Shown
  <2> HIDE DEF m
  <2>3. /\ target # viewing /\ viewing' = target
        /\ page' = [saved EXCEPT ![VIDEO] = saved[vid_mem_buffer(target)]]
        /\ UNCHANGED <<cursor, running>>
    BY <2>1, <2>2 DEF switch_terminal, m
  <2>4. \A t \in Tid : page'[Shown(t, target)] = page[Shown(t, viewing)]
    <3> TAKE t \in Tid
    <3>1. /\ target \in Tid /\ VIDEO \in Page
          /\ \A u \in Tid : vid_mem_buffer(u) \in Page /\ vid_mem_buffer(u) # VIDEO
          /\ \A u, w \in Tid : u # w => vid_mem_buffer(u) # vid_mem_buffer(w)
      BY <2>1, PageFacts
    <3>2. saved \in [Page -> Char]
      BY <1>0, <3>1
    <3>3. /\ \A u \in Tid \ {viewing} :
               saved[vid_mem_buffer(u)] = page[vid_mem_buffer(u)]
          /\ saved[vid_mem_buffer(viewing)] = page[VIDEO]
      BY <1>0, <3>1
    <3> HIDE DEF saved
    <3>4. /\ page'[VIDEO] = saved[vid_mem_buffer(target)]
          /\ \A u \in Tid : page'[vid_mem_buffer(u)] = saved[vid_mem_buffer(u)]
      BY <2>3, <3>1, <3>2
    <3>5. CASE t = target
      BY <2>3, <3>1, <3>3, <3>4, <3>5 DEF Shown
    <3>6. CASE t = viewing
      BY <1>0, <2>3, <3>3, <3>4, <3>6 DEF Shown
    <3>7. CASE t # target /\ t # viewing
      BY <3>3, <3>4, <3>7 DEF Shown
    <3> QED
      BY <3>5, <3>6, <3>7
  <2>5. [t \in Tid |-> page'[Shown(t, viewing')]] = [t \in Tid |-> page[Shown(t, viewing)]]
    BY <2>3, <2>4, Zenon
  <2>6. viewing' \in Scr!Tid
    BY <2>1, <2>3 DEF Tid, Scr!Tid
  <2> QED
    BY <2>3, <2>5, <2>6, Zenon DEF Scr!Next, Scr!View
<1>8. CASE Tick
  <2> DEFINE next == next_term_to_run(running)
             m == change_vidmem_mapping(map, next, viewing)
  <2>1. next \in Tid
    BY <1>0, PageFacts
  <2>2. m.screen_ptr = next /\ KernelPage(m) = Shown(next, viewing)
    BY <1>0, <2>1, ChangeMapping DEF KernelPage
  <2>3. running' = next /\ viewing' = viewing
    BY <1>8 DEF Tick
  <2>4. running' = IF running + 1 = TERM_NUM THEN 0 ELSE running + 1
    BY <2>3 DEF next_term_to_run
  <2> HIDE DEF next, m
  <2>5. CASE pcb_flags[next] = <<>>
    <3>1. PICK c \in Char, p \in Pos : nb_putc(m, next, c, p)
      BY <1>8, <2>5 DEF Tick, next, m
    <3>2. Scr!Draw(next)
      BY <1>0, <2>1, <2>2, <2>3, <3>1, DrawStep, Zenon DEF nb_putc
    <3> QED
      BY <2>3, <2>4, <3>2 DEF Scr!Next, Scr!TakeTurn
  <2>6. CASE pcb_flags[next] # <<>>
    <3>1. UNCHANGED <<page, cursor, viewing>>
      BY <1>8, <2>6 DEF Tick, next
    <3> QED
      BY <2>4, <3>1, QuietStep DEF Scr!Next, Scr!TakeTurn
  <2> QED
    BY <2>5, <2>6
<1> QED
  BY <1>1, <1>2, <1>3, <1>4, <1>6, <1>7, <1>8 DEF Next

(***************************************************************************)
(* The video component implements Screens for any number of terminals:     *)
(* each terminal has a screen and a cursor of its own.                     *)
(***************************************************************************)
THEOREM ImplementsScreens == Spec => RefinesScreens
<1>1. Init => Scr!Init
  <2> SUFFICES ASSUME Init PROVE Scr!Init
    OBVIOUS
  <2>1. [t \in Tid |-> page[Shown(t, viewing)]] \in [Scr!Tid -> Char]
    BY PageFacts, ShownFacts DEF Init, Tid, Scr!Tid
  <2>2. cursor \in [Scr!Tid -> Pos]
    BY VideoAssumption DEF Init, Tid, Scr!Tid
  <2> QED
    BY <2>1, <2>2 DEF Init, Scr!Init
<1>2. IInv /\ [Next]_vars => [Scr!Next]_(Scr!vars)
  <2> SUFFICES ASSUME IInv, [Next]_vars PROVE [Scr!Next]_(Scr!vars)
    OBVIOUS
  <2>1. CASE Next
    BY <2>1, ScreensStep
  <2>2. CASE UNCHANGED vars
    BY <2>2, QuietStep DEF vars, Scr!vars
  <2> QED
    BY <2>1, <2>2
<1> QED
  BY <1>1, <1>2, Invariance, PTL DEF Spec, RefinesScreens, Scr!Spec

-----------------------------------------------------------------------------
(* The clock: rtc_read and its interrupt, and the rate bits. *)
INSTANCE WellFoundedInduction

(* The powers of two, written out. *)
Pow2Table ==
  [k \in 0..31 |-> IF k = 0 THEN 1 ELSE
    <<2, 4, 8, 16, 32, 64, 128, 256, 512, 1024, 2048, 4096, 8192, 16384,
      32768, 65536, 131072, 262144, 524288, 1048576, 2097152, 4194304,
      8388608, 16777216, 33554432, 67108864, 134217728, 268435456,
      536870912, 1073741824, 2147483648>>[k]]

(* The recursive definition is met by the table, and so defines Pow2. *)
LEMMA Pow2Def == \A k \in 0..31 : Pow2[k] = IF k = 0 THEN 1 ELSE 2 * Pow2[k - 1]
<1> DEFINE Body(g) == [k \in 0..31 |-> IF k = 0 THEN 1 ELSE 2 * g[k - 1]]
<1>1. Pow2Table = Body(Pow2Table)
  BY DEF Pow2Table
<1>2. Pow2 = CHOOSE g : g = Body(g)
  BY DEF Pow2
<1> HIDE DEF Body
<1>3. Pow2 = Body(Pow2)
  BY <1>1, <1>2, Zenon
<1> QED
  BY <1>3 DEF Body

(* A larger exponent gives a larger power. *)
LEMMA Pow2Grows ==
  ASSUME NEW i \in 0..31
  PROVE  /\ Pow2[i] \in Nat \ {0}
         /\ \A j \in 0..31 : i < j => Pow2[i] < Pow2[j]
<1> DEFINE R == {e \in Nat \X Nat : e[1] < e[2]}
<1>1. IsWellFoundedOn(R, Nat)
  BY NatLessThanWellFounded DEF OpToRel
<1>2. \A k \in 0..31 : Pow2[k] \in Nat \ {0}
  <2> DEFINE S == {k \in 0..31 : Pow2[k] \notin Nat \ {0}}
  <2>1. SUFFICES ASSUME S # {} PROVE FALSE
    OBVIOUS
  <2>2. S \subseteq Nat
    OBVIOUS
  <2>3. PICK k \in S : \A q \in S : ~(<<q, k>> \in R)
    <3> HIDE DEF R, S
    <3> QED  BY <1>1, <2>1, <2>2, WFMin, Zenon
  <2>4. CASE k = 0
    BY <2>4, Pow2Def
  <2>5. CASE k # 0
    <3>1. k - 1 \in 0..31 /\ <<k - 1, k>> \in R
      BY <2>3, <2>5
    <3>2. k - 1 \notin S
      BY <2>3, <3>1
    <3> QED  BY <2>3, <2>5, <3>1, <3>2, Pow2Def
  <2> QED  BY <2>4, <2>5
<1>3. ASSUME NEW j \in 0..31, i < j PROVE Pow2[i] < Pow2[j]
  <2> DEFINE S == {k \in 0..31 : i < k /\ ~(Pow2[i] < Pow2[k])}
  <2>1. SUFFICES ASSUME S # {} PROVE FALSE
    BY <1>3
  <2>2. S \subseteq Nat
    OBVIOUS
  <2>3. PICK k \in S : \A q \in S : ~(<<q, k>> \in R)
    <3> HIDE DEF R, S
    <3> QED  BY <1>1, <2>1, <2>2, WFMin, Zenon
  <2>4. k - 1 \in 0..31 /\ i <= k - 1 /\ <<k - 1, k>> \in R
    BY <2>3
  <2>5. k - 1 \notin S
    BY <2>3, <2>4
  <2>6. Pow2[i] <= Pow2[k - 1]
    BY <1>2, <2>4, <2>5
  <2>7. k \in 0..31 /\ i < k /\ ~(Pow2[i] < Pow2[k])
    BY <2>3
  <2>8. Pow2[k] = 2 * Pow2[k - 1]
    BY <2>7, Pow2Def
  <2>9. Pow2[k - 1] \in Nat \ {0} /\ Pow2[i] \in Nat
    BY <1>2, <2>4
  <2> QED  BY <2>6, <2>7, <2>8, <2>9
<1> QED
  BY <1>2, <1>3

(* The shifts of set_frequency count the exponent. *)
LEMMA Log2OfPow2 ==
  ASSUME NEW k \in 0..30
  PROVE  Log2(Pow2[k]) = k
<1>1. Pow2[k] <= Pow2[k] /\ Pow2[k] < Pow2[k + 1]
  BY Pow2Grows
<1>2. ASSUME NEW j \in 0..30, Pow2[j] <= Pow2[k], Pow2[k] < Pow2[j + 1]
      PROVE  j = k
  <2>1. ~(k < j)
    BY <1>2, Pow2Grows
  <2>2. ~(j < k)
    <3>1. SUFFICES ASSUME j < k PROVE FALSE
      OBVIOUS
    <3>2. j + 1 = k \/ j + 1 < k
      BY <3>1
    <3> QED  BY <1>2, <3>2, Pow2Grows, SMTT(30)
  <2> QED  BY <2>1, <2>2
<1> QED
  BY <1>1, <1>2 DEF Log2

(* A frequency that set_frequency accepts is the rate of its bits. *)
LEMMA AcceptedRate ==
  ASSUME NEW f \in Int, Settable(f)
  PROVE  16 - Log2(f) \in 3..15 /\ Hz(16 - Log2(f)) = f
<1>1. PICK k \in 0..30 : f = Pow2[k]
  BY DEF Settable
<1>2. Log2(f) = k
  BY <1>1, Log2OfPow2
<1>3. 2 <= Pow2[k] /\ Pow2[k] <= Pow2[13]
  BY <1>1, RtcAssumption, Pow2Grows DEF Settable
<1>4. k # 0
  BY <1>3, Pow2Def
<1>5. ~(13 < k)
  BY <1>3, Pow2Grows
<1>6. 16 - k \in 3..15 /\ 16 - (16 - k) = k
  BY <1>4, <1>5
<1> QED
  BY <1>1, <1>2, <1>6 DEF Hz

(***************************************************************************)
(* A set signal is news to every reader that waits: it was clear when the  *)
(* last of them began, so an interrupt has come to each since.             *)
(***************************************************************************)
SignalIsNews ==
  \A t \in Tid :
    /\ reader[t] = "wait" /\ rtc_signal = 1 => since[t]
    /\ reader[t] = "seen" => since[t]

RtcInv == RtcTypeOK /\ SignalIsNews /\ RateAsAccepted

(* At boot no program reads the clock and no frequency is set. *)
LEMMA InitRtcInv == RtcInit => RtcInv
<1> SUFFICES ASSUME RtcInit PROVE RtcInv
  OBVIOUS
<1>1. rtc_signal \in {0, 1} /\ frame \in 3..15 /\ fre \in Int /\ running \in Tid
  BY RtcAssumption DEF RtcInit, Tid
<1>2. regC \in BOOLEAN /\ irq \in BOOLEAN
  BY Zenon DEF RtcInit
<1>3. /\ open \in [Tid -> BOOLEAN] /\ since \in [Tid -> BOOLEAN]
      /\ reader \in [Tid -> {"user", "wait", "seen"}]
  BY DEF RtcInit
<1>4. SignalIsNews /\ RateAsAccepted
  BY DEF RtcInit, SignalIsNews, RateAsAccepted
<1> QED
  BY <1>1, <1>2, <1>3, <1>4 DEF RtcInv, RtcTypeOK

(* Whatever set_frequency is given, the bits keep to the frequency. *)
LEMMA SetKeepsRate ==
  ASSUME NEW f \in Int, frame \in 3..15, fre \in Int, RateAsAccepted, set_frequency(f)
  PROVE  frame' \in 3..15 /\ fre' \in Int /\ RateAsAccepted'
<1>1. CASE Settable(f)
  BY <1>1, AcceptedRate DEF set_frequency, RateAsAccepted
<1>2. CASE ~Settable(f)
  BY <1>2, SMTT(30) DEF set_frequency, RateAsAccepted
<1> QED
  BY <1>1, <1>2

(* Every step of the driver, its interrupt and the timer keeps RtcInv. *)
LEMMA StepRtcInv == RtcInv /\ [RtcNext]_rtcVars => RtcInv'
<1> SUFFICES ASSUME RtcInv, [RtcNext]_rtcVars PROVE RtcInv'
  OBVIOUS
<1> USE DEF RtcInv, RtcTypeOK, SignalIsNews
<1>0. UNCHANGED <<frame, fre>> => RateAsAccepted'
  BY DEF RateAsAccepted
<1>1. CASE Raise
  BY <1>0, <1>1 DEF Raise
<1>2. CASE rtc_int_handler
  BY <1>0, <1>2, Zenon DEF rtc_int_handler
<1>3. CASE rtc_open
  <2>1. frame' \in 3..15 /\ fre' \in Int /\ RateAsAccepted'
    BY <1>3, SetKeepsRate, RtcAssumption DEF rtc_open
  <2> QED  BY <1>3, <2>1 DEF rtc_open
<1>4. CASE rtc_write
  <2>1. frame' \in 3..15 /\ fre' \in Int /\ RateAsAccepted'
    BY <1>4, SetKeepsRate, RtcAssumption DEF rtc_write
  <2> QED  BY <1>4, <2>1 DEF rtc_write
<1>5. CASE syscall_close
  BY <1>0, <1>5 DEF syscall_close
<1>6. CASE ReadBegin
  BY <1>0, <1>6 DEF ReadBegin
<1>7. CASE ReadSees
  BY <1>0, <1>7 DEF ReadSees
<1>8. CASE ReadReturn
  BY <1>0, <1>8 DEF ReadReturn
<1>9. CASE NextTurn
  <2>1. running' \in Tid
    BY <1>9, RtcAssumption DEF NextTurn, Tid
  <2> QED
    BY <1>0, <1>9, <2>1 DEF NextTurn
<1>10. CASE UNCHANGED rtcVars
  BY <1>0, <1>10 DEF rtcVars
<1> QED
  BY <1>1, <1>2, <1>3, <1>4, <1>5, <1>6, <1>7, <1>8, <1>9, <1>10 DEF RtcNext

(***************************************************************************)
(* However many programs share rtc_signal, rtc_read returns only after an  *)
(* interrupt that came during that read.                                   *)
(***************************************************************************)
THEOREM ReadsSeeInterrupts == RtcSpec => ReadSeesInterrupt
<1>1. RtcInv /\ [RtcNext]_rtcVars =>
        [\A t \in Tid : (reader[t] = "seen" /\ reader'[t] = "user") => since[t]]_rtcVars
  BY DEF RtcInv, SignalIsNews
<1> QED
  BY <1>1, InitRtcInv, StepRtcInv, PTL DEF RtcSpec, ReadSeesInterrupt

(***************************************************************************)
(* Whatever frequencies programs ask for, in whatever order, the device    *)
(* runs at the last one that set_frequency accepted.                       *)
(***************************************************************************)
THEOREM RateFollowsCalls == RtcSpec => []RateAsAccepted
<1>1. RtcInv => RateAsAccepted
  BY DEF RtcInv
<1> QED
  BY <1>1, InitRtcInv, StepRtcInv, PTL DEF RtcSpec
=============================================================================
