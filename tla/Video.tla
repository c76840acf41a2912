------------------------------- MODULE Video -------------------------------
(***************************************************************************)
(* The video component: three terminals share the text buffer at VIDEO     *)
(* (terminal.c, paging.c, lib.c, and vidmap, halt and execute in           *)
(* syscall_handler.c).                                                     *)
(*                                                                         *)
(* The terminal on the monitor is drawn in the page at VIDEO, each other   *)
(* terminal in its vid_mem_buffer.  The kernel always writes at the        *)
(* virtual address VIDEO, a program that called vidmap at FISH_MAP, and    *)
(* change_vidmem_mapping moves both to the page of a terminal.  A page is  *)
(* reduced to the last thing drawn on it, a cursor to one of a few         *)
(* positions; Console models what a character does to them.                *)
(*                                                                         *)
(* Every action is a handler or a system call that runs with interrupts    *)
(* off.  The processes of a terminal are a stack, as in Sessions.          *)
(***************************************************************************)
EXTENDS Terminals, Sequences

CONSTANTS
  Char,       \* what can be drawn
  Blank,      \* what a cleared screen shows
  Pos,        \* cursor positions; 0 is the top left corner
  Home,       \* where clear() puts the cursor
  Depth       \* bound: the programs in one terminal

ASSUME VideoAssumption ==
  /\ TERM_NUM \in Nat \ {0}
  /\ Depth \in Nat \ {0}
  /\ Blank \in Char
  /\ {0, Home} \subseteq Pos

(* The physical pages init_user_page_table makes present, from VIDEO on. *)
Page == 0..TERM_NUM
VIDEO == 0
NoPage == -1

VARIABLES
  page,        \* what is drawn on each page
  cursor,      \* cursor_x and cursor_y of each terminal_t
  vidmap_flag, \* vidmap_flag of each terminal_t
  pcb_flags,   \* vidmap_flag of the PCBs of each terminal's processes
  viewing,     \* viewing_term_ptr->tid
  map,         \* how the kernel and the running program reach a page
  hw_cursor    \* the cursor position in the VGA registers

vars == <<page, cursor, vidmap_flag, pcb_flags, viewing, running, map, hw_cursor>>

(***************************************************************************)
(* A mapping: the terminal that screen_x_ptr and screen_y_ptr point into,  *)
(* pg_addr of usr_page_table_base[VIDEO >> 12], present and pg_addr of     *)
(* usrmap_page_table_base[VIDEO >> 12], and the pages the TLB holds for    *)
(* the addresses VIDEO and FISH_MAP.                                       *)
(***************************************************************************)
Mapping == [screen_ptr : Tid, pte : Page, present : BOOLEAN, usrmap : Page,
            tlb_kernel : Page \cup {NoPage}, tlb_user : Page \cup {NoPage}]

(* The type invariant. *)
TypeOK ==
  /\ page \in [Page -> Char]
  /\ cursor \in [Tid -> Pos]
  /\ vidmap_flag \in [Tid -> BOOLEAN]
  /\ pcb_flags \in [Tid -> Seq(BOOLEAN)]
  /\ viewing \in Tid
  /\ running \in Tid
  /\ map \in Mapping
  /\ hw_cursor \in Pos

(* paging_init and terminal_init; entry() drew something before them, and  *)
(* terminal_init does not move the cursor on the monitor.                  *)
Init ==
  /\ page \in [Page -> Char]
  /\ cursor = [t \in Tid |-> 0]
  /\ vidmap_flag = [t \in Tid |-> FALSE]
  /\ pcb_flags = [t \in Tid |-> <<>>]
  /\ viewing = 0
  /\ running = 0
  /\ map = [screen_ptr |-> 0, pte |-> VIDEO, present |-> TRUE, usrmap |-> VIDEO,
            tlb_kernel |-> NoPage, tlb_user |-> NoPage]
  /\ hw_cursor \in Pos

-----------------------------------------------------------------------------
(* Helpers *)

vid_mem_buffer(t) == t + 1

(* The page terminal t is drawn in when terminal v is on the monitor. *)
Shown(t, v) == IF t = v THEN VIDEO ELSE vid_mem_buffer(t)

flush_tlb(m) == [m EXCEPT !.tlb_kernel = NoPage, !.tlb_user = NoPage]

(* Point kernel and program at terminal t, terminal v being viewed. *)
change_vidmem_mapping(m, t, v) ==
  flush_tlb([m EXCEPT !.screen_ptr = t,
                      !.pte = Shown(t, v),
                      !.present = vidmap_flag[t],
                      !.usrmap = Shown(t, v)])

(* The page a kernel access at VIDEO reaches, and the TLB after it. *)
KernelPage(m) == IF m.tlb_kernel = NoPage THEN m.pte ELSE m.tlb_kernel

Touched(m) == [m EXCEPT !.tlb_kernel = KernelPage(m)]

(* Characters go through mapping m; nb_putc moves the cursor on the        *)
(* monitor only when the running terminal r is viewed.                     *)
nb_putc(m, r, c, p) ==
  /\ page' = [page EXCEPT ![KernelPage(m)] = c]
  /\ cursor' = [cursor EXCEPT ![m.screen_ptr] = p]
  /\ hw_cursor' = IF viewing = r THEN p ELSE hw_cursor

HasProgram == pcb_flags[running] # <<>>

-----------------------------------------------------------------------------
(* System calls of the running program *)

(* terminal_write, or a message the kernel prints on the program's behalf. *)
terminal_write ==
  /\ HasProgram
  /\ \E c \in Char, p \in Pos : nb_putc(map, running, c, p)
  /\ map' = Touched(map)
  /\ UNCHANGED <<vidmap_flag, pcb_flags, viewing, running>>

syscall_execute ==
  /\ HasProgram
  /\ Len(pcb_flags[running]) < Depth
  /\ pcb_flags' = [pcb_flags EXCEPT ![running] = Append(@, FALSE)]
  /\ map' = flush_tlb(map)
  /\ UNCHANGED <<page, cursor, vidmap_flag, viewing, running, hw_cursor>>

(* Rewrite the entry of the page that vidmap gives out. *)
switch_usrmap(m, index, present) == [m EXCEPT !.present = present, !.usrmap = index]

(* Mutant: the page is one too high. *)
syscall_vidmap_OffByOne ==
  /\ Len(pcb_flags[running]) > 1
  /\ map' = flush_tlb(switch_usrmap(map, Shown(running, viewing) + 1, TRUE))
  /\ pcb_flags' = [pcb_flags EXCEPT ![running][Len(pcb_flags[running])] = TRUE]
  /\ vidmap_flag' = [vidmap_flag EXCEPT ![running] = TRUE]
  /\ UNCHANGED <<page, cursor, viewing, running, hw_cursor>>

(* Of the programs in the file system only those a shell starts call it. *)
syscall_vidmap ==
  /\ Len(pcb_flags[running]) > 1
  /\ map' = flush_tlb(switch_usrmap(map, Shown(running, viewing), TRUE))
  /\ pcb_flags' = [pcb_flags EXCEPT ![running][Len(pcb_flags[running])] = TRUE]
  /\ vidmap_flag' = [vidmap_flag EXCEPT ![running] = TRUE]
  /\ UNCHANGED <<page, cursor, viewing, running, hw_cursor>>

(* Mutant: the terminal's vidmap_flag stays set. *)
ReleaseVidmap_KeepsFlag(m, asked) ==
  /\ map' = IF asked
              THEN switch_usrmap(m, Shown(running, viewing), FALSE)
              ELSE m
  /\ UNCHANGED vidmap_flag

(* halt's "switch user mapping": m is the mapping it finds. *)
ReleaseVidmap(m, asked) ==
  IF asked
    THEN /\ map' = switch_usrmap(m, Shown(running, viewing), FALSE)
         /\ vidmap_flag' = [vidmap_flag EXCEPT ![running] = FALSE]
    ELSE map' = m /\ UNCHANGED vidmap_flag

(* A base shell is replaced by a new one, any other program gives way to   *)
(* its parent.  Both map another user page and so flush the TLB first.     *)
HaltBase ==
  /\ Len(pcb_flags[running]) = 1
  /\ pcb_flags' = [pcb_flags EXCEPT ![running] = <<FALSE>>]
  /\ map' = flush_tlb(map)
  /\ UNCHANGED vidmap_flag

HaltChild ==
  LET n == Len(pcb_flags[running])
  IN  /\ n > 1
      /\ pcb_flags' = [pcb_flags EXCEPT ![running] = SubSeq(@, 1, n - 1)]
      /\ ReleaseVidmap(flush_tlb(map), pcb_flags[running][n])

syscall_halt == HaltBase \/ HaltChild

Halt ==
  /\ syscall_halt
  /\ UNCHANGED <<page, cursor, viewing, running, hw_cursor>>

(* An exception prints its name and halts the program. *)
Exception ==
  /\ \E c \in Char, p \in Pos : nb_putc(map, running, c, p)
  /\ syscall_halt
  /\ UNCHANGED <<viewing, running>>

(* The program stores through the pointer vidmap gave out. *)
DrawAtFishMap ==
  LET pg == IF map.tlb_user = NoPage THEN map.usrmap ELSE map.tlb_user
  IN  /\ HasProgram
      /\ map.present \/ map.tlb_user # NoPage
      /\ \E c \in Char : page' = [page EXCEPT ![pg] = c]
      /\ map' = [map EXCEPT !.tlb_user = pg]
      /\ UNCHANGED <<cursor, vidmap_flag, pcb_flags, viewing, running, hw_cursor>>

-----------------------------------------------------------------------------
(* Interrupt handlers *)

(* Mutant: the mapping is left on the viewed terminal. *)
DrawOnMonitor_NoRestore(c, p) ==
  LET m == change_vidmem_mapping(map, viewing, viewing)
  IN  /\ page' = [page EXCEPT ![KernelPage(m)] = c]
      /\ cursor' = [cursor EXCEPT ![m.screen_ptr] = p]
      /\ hw_cursor' = p
      /\ map' = Touched(m)
      /\ UNCHANGED <<vidmap_flag, pcb_flags, viewing, running>>

(* Draw on the viewed terminal, calibrate the cursor, and map back. *)
DrawOnMonitor(c, p) ==
  LET m == change_vidmem_mapping(map, viewing, viewing)
  IN  /\ page' = [page EXCEPT ![KernelPage(m)] = c]
      /\ cursor' = [cursor EXCEPT ![m.screen_ptr] = p]
      /\ hw_cursor' = p
      /\ map' = change_vidmem_mapping(Touched(m), running, viewing)
      /\ UNCHANGED <<vidmap_flag, pcb_flags, viewing, running>>

(* A printable key, Enter, or backspace. *)
EchoKey == \E c \in Char, p \in Pos : DrawOnMonitor(c, p)

(* Ctrl+L. *)
clear == DrawOnMonitor(Blank, Home)

(* Mutant: the cursor on the monitor is not moved. *)
switch_terminal_NoCalib(target) ==
  LET m == change_vidmem_mapping(map, viewing, viewing)
      saved == [page EXCEPT ![vid_mem_buffer(viewing)] = page[KernelPage(m)]]
  IN  /\ target # viewing
      /\ page' = [saved EXCEPT ![KernelPage(m)] = saved[vid_mem_buffer(target)]]
      /\ viewing' = target
      /\ map' = change_vidmem_mapping(Touched(m), running, target)
      /\ UNCHANGED <<cursor, vidmap_flag, pcb_flags, running, hw_cursor>>

(* Mutant: the old screen is saved through the running terminal's mapping. *)
switch_terminal_SavesRunning(target) ==
  LET saved == [page EXCEPT ![vid_mem_buffer(viewing)] = page[KernelPage(map)]]
  IN  /\ target # viewing
      /\ hw_cursor' = cursor[target]
      /\ page' = [saved EXCEPT ![KernelPage(map)] = saved[vid_mem_buffer(target)]]
      /\ viewing' = target
      /\ map' = change_vidmem_mapping(map, running, target)
      /\ UNCHANGED <<cursor, vidmap_flag, pcb_flags, running>>

(* Alt+F1..F3: copy VIDEO out to the old terminal's buffer and the new     *)
(* terminal's buffer in, through the mapping of the old terminal.          *)
switch_terminal(target) ==
  LET m == change_vidmem_mapping(map, viewing, viewing)
      saved == [page EXCEPT ![vid_mem_buffer(viewing)] = page[KernelPage(m)]]
  IN  /\ target # viewing
      /\ hw_cursor' = cursor[target]
      /\ page' = [saved EXCEPT ![KernelPage(m)] = saved[vid_mem_buffer(target)]]
      /\ viewing' = target
      /\ map' = change_vidmem_mapping(Touched(m), running, target)
      /\ UNCHANGED <<cursor, vidmap_flag, pcb_flags, running>>

SwitchTerminal == \E t \in Tid : switch_terminal(t)

next_term_to_run(t) == IF t + 1 = TERM_NUM THEN 0 ELSE t + 1

(***************************************************************************)
(* pit_int_handler maps the next terminal before schedule() makes it the   *)
(* running one.  A terminal with no program gets a base shell, announced   *)
(* on its screen.                                                          *)
(***************************************************************************)
Tick ==
  LET next == next_term_to_run(running)
      m == change_vidmem_mapping(map, next, viewing)
  IN  /\ running' = next
      /\ map' = flush_tlb(m)
      /\ IF pcb_flags[next] = <<>>
           THEN /\ \E c \in Char, p \in Pos : nb_putc(m, next, c, p)
                /\ pcb_flags' = [pcb_flags EXCEPT ![next] = <<FALSE>>]
           ELSE UNCHANGED <<page, cursor, hw_cursor, pcb_flags>>
      /\ UNCHANGED <<vidmap_flag, viewing>>

Next ==
  \/ terminal_write
  \/ syscall_execute
  \/ syscall_vidmap
  \/ Halt
  \/ Exception
  \/ DrawAtFishMap
  \/ EchoKey
  \/ clear
  \/ SwitchTerminal
  \/ Tick

Spec == Init /\ [][Next]_vars

-----------------------------------------------------------------------------
(* Properties *)

(***************************************************************************)
(* Between handlers the kernel's address VIDEO, the cursor pointers and    *)
(* the program's address FISH_MAP lead to the terminal whose program runs, *)
(* and the TLB holds nothing the page tables do not say, however ticks,    *)
(* key presses and terminal switches interleave with vidmap and halt.      *)
(***************************************************************************)
MappingFollowsRunning ==
  /\ map.screen_ptr = running
  /\ map.pte = Shown(running, viewing)
  /\ map.usrmap = Shown(running, viewing)
  /\ map.tlb_kernel \in {NoPage, map.pte}
  /\ map.tlb_user # NoPage => map.present /\ map.tlb_user = map.usrmap
  /\ HasProgram => map.present = vidmap_flag[running]

(***************************************************************************)
(* The cursor on the monitor is that of the viewed terminal, although      *)
(* programs of the other terminals keep moving theirs, once the viewed     *)
(* terminal has its base shell.                                            *)
(***************************************************************************)
CursorFollowsMonitor ==
  pcb_flags[viewing] # <<>> => hw_cursor = cursor[viewing]

(***************************************************************************)
(* A terminal's FISH_MAP page is open only while some program of that      *)
(* terminal that called vidmap has not halted: what vidmap opened is never *)
(* left to the shell.                                                      *)
(***************************************************************************)
MappedOnlyWhileAsked ==
  \A t \in Tid : vidmap_flag[t] => \E i \in DOMAIN pcb_flags[t] : pcb_flags[t][i]

Scr == INSTANCE Screens WITH
         screen <- [t \in Tid |-> page[Shown(t, viewing)]],
         viewed <- viewing,
         turn <- running

(***************************************************************************)
(* The page shuffling of switch_terminal, change_vidmem_mapping and vidmap *)
(* gives each terminal a screen of its own: no write, echo, clear, switch  *)
(* or tick ever draws on, loses or moves the screen or the cursor of a     *)
(* terminal it is not meant for.                                           *)
(***************************************************************************)
RefinesScreens == Scr!Spec
=============================================================================
