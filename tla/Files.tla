------------------------------- MODULE Files --------------------------------
(***************************************************************************)
(* The read-only file system (fs.c) and the file descriptors of programs   *)
(* (open, read, write and close in syscall_handler.c).                     *)
(*                                                                         *)
(* The programs of one terminal are stacked: program 1 is the base shell,  *)
(* program n + 1 was executed by program n, and only the top one runs.  A  *)
(* byte is named by its data block and its place in it, so that a read     *)
(* shows exactly which bytes it copied.                                    *)
(***************************************************************************)
EXTENDS Integers, Sequences, FiniteSetsExt

CONSTANTS
  BLOCK_SIZE,        \* 4096
  MAX_FILES,         \* 63
  FD_NUM,            \* descriptors of a program (8)
  Depth,             \* how deep programs execute programs
  Word,              \* 2^32: where uint32_t wraps
  files,             \* boot_block.files: a sequence of directory entries
  inodes,            \* what the inode blocks hold: length and data blocks
  num_data_blocks,
  Name,              \* names programs open: a key and whether it exceeds 32
  NBytes             \* the lengths programs read

(* The end of a read of n bytes is computed without wrapping: a file has   *)
(* less than 4 MB, and a buffer lies in the 4 MB page of its program.      *)
NoWrap(n) == n \in Nat /\ \A i \in DOMAIN inodes : inodes[i].length + n < Word

(* What the image builder guarantees: entries have a name, one of the      *)
(* three types, and an inode that the image has.                           *)
ASSUME FilesAssumption ==
  /\ BLOCK_SIZE \in Nat \ {0} /\ MAX_FILES \in Nat \ {0} /\ Word \in Nat \ {0}
  /\ FD_NUM \in Nat /\ FD_NUM > 2 /\ Depth \in Nat \ {0}
  /\ Len(files) \in Nat /\ DOMAIN files = 1..Len(files)
  /\ \A i \in DOMAIN files : /\ files[i].type \in 0..2
                             /\ files[i].inode \in DOMAIN inodes
                             /\ files[i].len \in Nat \ {0}
  /\ DOMAIN inodes \subseteq Nat
  /\ \A i \in DOMAIN inodes : inodes[i].length \in Nat
  /\ \A n \in NBytes : NoWrap(n)

Fd == 0..(FD_NUM - 1)
FdArg == -1..FD_NUM    \* what programs pass as one
Prog == 1..Depth

VARIABLES
  pcb_fds,   \* the descriptor table of each program's PCB
  cur,       \* the running program
  got,       \* what each descriptor's reads returned since it was opened
  ret        \* the last call: which, by what descriptor, what it returned

vars == <<pcb_fds, cur, got, ret>>

NoCall == [call |-> "none", fd |-> 0, nbytes |-> 0, val |-> 0]
Call(c, fd, n, v) == [call |-> c, fd |-> fd, nbytes |-> n, val |-> v]

-----------------------------------------------------------------------------
(* The file system *)

(* The index of the first entry with a name's first 32 characters, or -1. *)
read_dentry_by_name(name) ==
  LET found == {i \in DOMAIN files : files[i].key = name.key}
  IN  IF name.long \/ found = {} THEN -1 ELSE Min(found)

(* memcpy of n bytes from place off of data block b. *)
Piece(b, off, n) == [i \in 1..n |-> <<b, off + i - 1>>]

(* What several memcpys write one after the other. *)
Joined(parts) ==
  LET upTo[k \in 1..Len(parts)] == IF k = 1 THEN parts[k] ELSE upTo[k - 1] \o parts[k]
  IN  IF Len(parts) = 0 THEN <<>> ELSE upTo[Len(parts)]

(* A successful read returns the bytes; the others return only a number. *)
Fails == [val |-> -1, bytes |-> <<>>]

(* Mutant: an end within the block a read starts in is taken for another. *)
CopyBlocks_FirstWhole(blocks, start, startOff, end, endOff) ==
  LET middle == [k \in 1..(end - start - 1) |-> Piece(blocks[start + k], 0, BLOCK_SIZE)]
  IN  Piece(blocks[start], startOff, BLOCK_SIZE - startOff)
        \o Joined(middle) \o Piece(blocks[end], 0, endOff)

CopyBlocks(blocks, start, startOff, end, endOff) ==
  LET middle == [k \in 1..(end - start - 1) |-> Piece(blocks[start + k], 0, BLOCK_SIZE)]
  IN  IF start = end
        THEN Piece(blocks[start], startOff, endOff - startOff)
        ELSE Piece(blocks[start], startOff, BLOCK_SIZE - startOff)
               \o Joined(middle) \o Piece(blocks[end], 0, endOff)

(* Mutant: the last byte of a file counts as its end. *)
AtEnd_Early(length, offset) == length <= offset + 1

AtEnd(length, offset) == length <= offset

EndOf(fileLength, offset, length) ==
  LET sum == (offset + length) % Word
  IN  IF sum >= fileLength THEN fileLength ELSE sum

read_data(inode, offset, length) ==
  LET node  == inodes[inode]
      end   == EndOf(node.length, offset, length)
      start == offset \div BLOCK_SIZE
      last  == end \div BLOCK_SIZE
  IN  IF inode >= MAX_FILES THEN Fails
      ELSE IF AtEnd(node.length, offset) THEN [val |-> 0, bytes |-> <<>>]
      ELSE IF \/ start >= MAX_FILES
              \/ last >= MAX_FILES
              \/ \E j \in start..last : node.blocks[j] >= num_data_blocks
             THEN Fails
      ELSE [val |-> end - offset,
            bytes |-> CopyBlocks(node.blocks, start, offset % BLOCK_SIZE,
                                 last, end % BLOCK_SIZE)]

(* Each read of a directory returns the next entry's name. *)
dir_read(pos) ==
  IF pos >= Len(files) THEN [val |-> 0, bytes |-> <<>>]
  ELSE [val |-> files[pos + 1].len, bytes |-> <<files[pos + 1].key>>]

-----------------------------------------------------------------------------
(* Descriptors *)

FREE == [op |-> "none", inode |-> 0, file_pos |-> 0, used |-> FALSE]
Opened(op, inode, pos) == [op |-> op, inode |-> inode, file_pos |-> pos, used |-> TRUE]
Terminal(op) == Opened(op, -1, 0)

(***************************************************************************)
(* init_file_table leaves the fields of a free entry as they were, as does *)
(* close; open sets them all, so a free entry is just FREE here.           *)
(***************************************************************************)
init_file_table ==
  [fd \in Fd |-> IF fd = 0 THEN Terminal("stdin")
                 ELSE IF fd = 1 THEN Terminal("stdout") ELSE FREE]

Nothing == [fd \in Fd |-> <<>>]

Init ==
  /\ pcb_fds = [p \in Prog |-> init_file_table]
  /\ cur = 1
  /\ got = [p \in Prog |-> Nothing]
  /\ ret = NoCall

(* The operations an entry of each type gets. *)
OpsOf(type) == CASE type = 0 -> "rtc" [] type = 1 -> "dir" [] type = 2 -> "file"

(* Mutant: the next descriptor is taken after counting those in use. *)
Candidates_ByCount ==
  LET n == 2 + Cardinality({fd \in 2..(FD_NUM - 1) : pcb_fds[cur][fd].used})
  IN  {n} \cap Fd

(* The descriptors open may use; it takes the lowest. *)
Candidates == {fd \in 2..(FD_NUM - 1) : ~ pcb_fds[cur][fd].used}

(* A call that fails changes nothing. *)
Refuse(call) == ret' = Call(call, 0, 0, -1) /\ UNCHANGED <<pcb_fds, cur, got>>

syscall_open(name) ==
  LET i == read_dentry_by_name(name)
  IN  IF i = -1 \/ Candidates = {}
        THEN Refuse("open")
        ELSE LET fd == Min(Candidates)
             IN  /\ pcb_fds' = [pcb_fds EXCEPT ![cur][fd] =
                        Opened(OpsOf(files[i].type), files[i].inode, 0)]
                 /\ got' = [got EXCEPT ![cur][fd] = <<>>]
                 /\ ret' = Call("open", fd, 0, fd)
                 /\ UNCHANGED cur

InUse(fd) == fd \in Fd /\ pcb_fds[cur][fd].used

(* The operation behind a read: that of stdin is in Keyboard, and the wait *)
(* for the clock's interrupt in Rtc.                                       *)
ReadOf(e, n) ==
  CASE e.op = "file" -> read_data(e.inode, e.file_pos, n)
    [] e.op = "dir" -> dir_read(e.file_pos)
    [] e.op = "rtc" -> [val |-> 0, bytes |-> <<>>]

syscall_read(fd, n) ==
  IF fd = 1 \/ ~ InUse(fd) THEN Refuse("read")
  ELSE LET e == pcb_fds[cur][fd]
           r == ReadOf(e, n)
           step == IF e.op = "file" THEN r.val ELSE Len(r.bytes)
       IN  /\ e.op # "stdin"
           /\ IF r.val = -1
                THEN UNCHANGED <<pcb_fds, got>>
                ELSE /\ pcb_fds' = [pcb_fds EXCEPT ![cur][fd] =
                             Opened(e.op, e.inode, e.file_pos + step)]
                     /\ got' = [got EXCEPT ![cur][fd] = @ \o r.bytes]
           /\ ret' = Call("read", fd, n, r.val)
           /\ UNCHANGED cur

(* Files and directories are not written; what stdout shows is in Console, *)
(* what the clock accepts in Rtc.                                          *)
syscall_write(fd, n) ==
  IF fd = 0 \/ ~ InUse(fd) \/ (pcb_fds[cur][fd].op = "stdout" /\ n <= 0)
     \/ pcb_fds[cur][fd].op \in {"file", "dir"}
    THEN Refuse("write")
    ELSE /\ pcb_fds[cur][fd].op = "stdout"
         /\ ret' = Call("write", fd, 0, n)
         /\ UNCHANGED <<pcb_fds, cur, got>>

(* Mutant: a free descriptor can be closed. *)
syscall_close_Free(fd) ==
  IF fd \notin Fd \ {0, 1} THEN Refuse("close")
  ELSE /\ pcb_fds' = [pcb_fds EXCEPT ![cur][fd] = FREE]
       /\ got' = [got EXCEPT ![cur][fd] = <<>>]
       /\ ret' = Call("close", fd, 0, 0)
       /\ UNCHANGED cur

syscall_close(fd) ==
  IF fd < 2 \/ ~ InUse(fd) THEN Refuse("close")
  ELSE /\ pcb_fds' = [pcb_fds EXCEPT ![cur][fd] = FREE]
       /\ got' = [got EXCEPT ![cur][fd] = <<>>]
       /\ ret' = Call("close", fd, 0, 0)
       /\ UNCHANGED cur

syscall_execute ==
  /\ cur < Depth
  /\ cur' = cur + 1
  /\ pcb_fds' = [pcb_fds EXCEPT ![cur + 1] = init_file_table]
  /\ got' = [got EXCEPT ![cur + 1] = Nothing]
  /\ ret' = NoCall

(* The base shell is executed again; any other program's descriptors are   *)
(* closed and its parent goes on.                                          *)
syscall_halt ==
  /\ ret' = NoCall
  /\ IF cur = 1
       THEN /\ pcb_fds' = [pcb_fds EXCEPT ![1] = init_file_table]
            /\ got' = [got EXCEPT ![1] = Nothing]
            /\ UNCHANGED cur
       ELSE /\ pcb_fds' = [pcb_fds EXCEPT ![cur] =
                   [fd \in Fd |-> IF fd < 2 THEN @[fd] ELSE FREE]]
            /\ got' = [got EXCEPT ![cur] = Nothing]
            /\ cur' = cur - 1

(* What any program may do. *)
AnyCall ==
  \/ \E name \in Name : syscall_open(name)
  \/ \E fd \in FdArg, n \in NBytes : syscall_read(fd, n)
  \/ \E fd \in FdArg, n \in {0, 1} : syscall_write(fd, n)
  \/ \E fd \in FdArg : syscall_close(fd)
  \/ syscall_execute
  \/ syscall_halt

-----------------------------------------------------------------------------
(* Properties *)

(* The bytes of a file, and the names of the directory, in order. *)
Content(e) ==
  IF e.op = "file"
    THEN [i \in 1..inodes[e.inode].length |->
            <<inodes[e.inode].blocks[(i - 1) \div BLOCK_SIZE], (i - 1) % BLOCK_SIZE>>]
    ELSE [i \in DOMAIN files |-> files[i].key]

Readable(e) == e.used /\ e.op \in {"file", "dir"}

(***************************************************************************)
(* What a descriptor's reads have returned, put together, is the beginning *)
(* of its file (or of the list of names), whatever the lengths of the      *)
(* reads and wherever they cross the blocks.                               *)
(***************************************************************************)
ReadsInOrder ==
  \A p \in Prog : \A fd \in Fd :
    Readable(pcb_fds[p][fd]) =>
      got[p][fd] = SubSeq(Content(pcb_fds[p][fd]), 1, pcb_fds[p][fd].file_pos)

(***************************************************************************)
(* A read of at least one byte returns 0 only at the end: a program that   *)
(* reads until 0 has had the whole file.                                   *)
(***************************************************************************)
ZeroMeansEnd ==
  (/\ ret.call = "read" /\ ret.val = 0 /\ ret.nbytes > 0
   /\ Readable(pcb_fds[cur][ret.fd])) =>
    got[cur][ret.fd] = Content(pcb_fds[cur][ret.fd])

BaseShellRestarts == cur = 1 /\ cur' = 1 /\ ret' = NoCall

(* The descriptor is closed by its program, or goes on with its file. *)
EntryKept(p, fd) ==
  LET e == pcb_fds[p][fd]
      f == pcb_fds'[p][fd]
  IN  \/ ret'.call = "close" /\ ret'.val = 0 /\ ret'.fd = fd /\ p = cur
      \/ f.op = e.op /\ f.inode = e.inode /\ f.used /\ f.file_pos >= e.file_pos

Keeps ==
  \A p \in Prog : p <= cur /\ p <= cur' => \A fd \in Fd :
    Readable(pcb_fds[p][fd]) /\ ~ BaseShellRestarts => EntryKept(p, fd)

(***************************************************************************)
(* Between its open and its close a descriptor stays the same file and its *)
(* position never goes back, whatever else the program opens and closes    *)
(* and whatever programs it executes.                                      *)
(***************************************************************************)
DescriptorKept == [][Keeps]_vars
=============================================================================
