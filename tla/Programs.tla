------------------------------ MODULE Programs ------------------------------
(***************************************************************************)
(* Programs that use the descriptors: cat, ls, grep's walk over the        *)
(* directory, and syserr, the repository's test of the system calls' error *)
(* returns.  A program that may do anything executes them, with whatever   *)
(* it has open, or another such program.                                   *)
(***************************************************************************)
EXTENDS Files

CONSTANTS
  BUFSIZE,  \* the buffer of cat and grep (1024)
  Dot,      \* the name of the directory
  Hidden,   \* the keys of the names that begin with '.'
  Absent,   \* a name that the directory does not have
  NoArg     \* stands for the argument of a program that got none

ASSUME ProgramsAssumption ==
  /\ BUFSIZE \in Nat \ {0} /\ {Dot, Absent} \subseteq Name
  /\ NoArg \notin Name /\ NoArg \notin 0..9
  /\ \A n \in {BUFSIZE, 31, 32} : NoWrap(n)

(* An image as the builder makes it: every inode is one read_data accepts  *)
(* and names data blocks that exist, for all of a file and the block it    *)
(* ends at; the directory is in it, no name twice, and no directory but    *)
(* under a name that begins with '.'.  A program has two descriptors to    *)
(* open.                                                                   *)
ASSUME ImageAssumption ==
  /\ num_data_blocks \in Nat
  /\ \A i \in DOMAIN inodes :
       LET last == inodes[i].length \div BLOCK_SIZE
       IN  /\ i < MAX_FILES /\ last < MAX_FILES
           /\ \A j \in 0..last : inodes[i].blocks[j] \in 0..(num_data_blocks - 1)
  /\ \A i, j \in DOMAIN files : files[i].key = files[j].key => i = j
  /\ \A i \in DOMAIN files : files[i].type = 1 => files[i].key \in Hidden
  /\ \E i \in DOMAIN files : files[i].key = Dot.key /\ files[i].type = 1 /\ ~ Dot.long
  /\ \A i \in DOMAIN files : files[i].key # Absent.key
  /\ FD_NUM > 3

VARIABLE my  \* the running program's name, argument, place and variables

progVars == <<vars, my>>

Idle == [prog |-> "any", arg |-> 0, at |-> "idle", fd |-> -1, file |-> -1, buf |-> <<>>,
         test |-> 0, call |-> 0, refused |-> 0, out |-> <<>>, status |-> 0]

ProgInit == Init /\ my = Idle

(* What the last read put in the buffer. *)
NewBytes(fd) == SubSeq(got'[cur][fd], Len(got[cur][fd]) + 1, Len(got'[cur][fd]))

Goto(place) == my' = [my EXCEPT !.at = place]
Exit(status) == my' = [my EXCEPT !.at = "exit", !.status = status]

(* getargs in cat and grep; what it gives otherwise is my.arg. *)
GetargsFails ==
  /\ my.prog \in {"cat", "grep"} /\ my.at = "main" /\ my.arg = NoArg
  /\ Refuse("getargs")
  /\ Exit(3)

-----------------------------------------------------------------------------
(* cat and ls: open, then read and write until a read returns 0. *)

Lister == my.prog \in {"cat", "ls"}

ListerOpen ==
  /\ Lister /\ my.at = "main" /\ my.arg # NoArg
  /\ syscall_open(IF my.prog = "cat" THEN my.arg ELSE Dot)
  /\ IF ret'.val = -1 THEN Exit(2) ELSE my' = [my EXCEPT !.at = "read", !.fd = ret'.val]

ListerRead ==
  /\ Lister /\ my.at = "read"
  /\ syscall_read(my.fd, BUFSIZE)
  /\ CASE ret'.val = 0 -> Exit(0)
       [] ret'.val = -1 -> Exit(3)
       [] OTHER -> my' = [my EXCEPT !.at = "write", !.buf = NewBytes(my.fd)]

(* ls writes a message, then the name and a newline. *)
ListerWrite ==
  /\ Lister /\ my.at = "write"
  /\ syscall_write(1, Len(my.buf))
  /\ IF ret'.val = -1 THEN Exit(3)
     ELSE my' = [my EXCEPT !.at = "read", !.buf = <<>>,
                   !.out = @ \o IF my.prog = "ls" THEN <<"try">> \o my.buf \o <<"newline">>
                                ELSE my.buf]

-----------------------------------------------------------------------------
(* grep: each file of the directory is opened, read to its end and closed  *)
(* while the directory is read; the search itself is in Grep.              *)

GrepOpen ==
  /\ my.prog = "grep" /\ my.at = "main" /\ my.arg # NoArg
  /\ syscall_open(Dot)
  /\ IF ret'.val = -1 THEN Exit(2) ELSE my' = [my EXCEPT !.at = "entry", !.fd = ret'.val]

GrepEntry ==
  /\ my.prog = "grep" /\ my.at = "entry"
  /\ syscall_read(my.fd, 32)
  /\ CASE ret'.val = 0 -> Exit(0)
       [] ret'.val = -1 -> Exit(3)
       [] OTHER -> IF NewBytes(my.fd)[1] \in Hidden THEN UNCHANGED my
                   ELSE my' = [my EXCEPT !.at = "open", !.buf = NewBytes(my.fd)]

(* out is here what was read of all the files, to be searched. *)
do_one_file ==
  \/ /\ my.at = "open"
     /\ syscall_open([key |-> my.buf[1], long |-> FALSE])
     /\ IF ret'.val = -1 THEN Exit(3) ELSE my' = [my EXCEPT !.at = "search", !.file = ret'.val]
  \/ /\ my.at = "search"
     /\ syscall_read(my.file, BUFSIZE)
     /\ CASE ret'.val = 0 -> Goto("close")
          [] ret'.val = -1 -> Exit(3)
          [] OTHER -> my' = [my EXCEPT !.out = @ \o NewBytes(my.file)]
  \/ /\ my.at = "close"
     /\ syscall_close(my.file)
     /\ IF ret'.val = -1 THEN Exit(3) ELSE Goto("entry")

Grep == GrepOpen \/ GrepEntry \/ (my.prog = "grep" /\ do_one_file)

-----------------------------------------------------------------------------
(* syserr *)

(* A system call number that the table does not have. *)
syscall_entry(number) == number \notin 1..10 /\ Refuse("number")

(* vidmap of a pointer that is not the program's. *)
syscall_vidmap(pointer) == pointer \in {"null", "kernel"} /\ Refuse("vidmap")

(* Whether the test looks at the call's result. *)
Counted(call) == [call |-> call[1], arg |-> call[2], counted |-> TRUE]
Uncounted(call) == [call |-> call[1], arg |-> call[2], counted |-> FALSE]
All(call, args) == [k \in DOMAIN args |-> Counted(<<call, args[k]>>)]
Fds == [k \in 1..(FD_NUM - 2) |-> k + 1]    \* 2..7

err_bad_fd(fd) == All("read", <<fd>>) \o All("write", <<fd>>) \o All("close", <<fd>>)
err_open_lots == All("open", [k \in 1..(FD_NUM - 1) |-> Dot])
                   \o [k \in DOMAIN Fds |-> Uncounted(<<"close", Fds[k]>>)]
err_open == All("open", <<Absent, Absent, Absent>>)
err_unopened == All("close", <<0, 1>> \o Fds) \o All("read", Fds) \o All("write", Fds)
err_vidmap == All("vidmap", <<"null", "kernel">>)
err_stdin_out == All("write", <<0>>) \o All("read", <<1>>)
err_syscall_num == All("number", <<11, -1, 0>>)

(* The tests' calls, and how many of the counted ones are to be refused. *)
Tests == << err_bad_fd(-1), err_bad_fd(FD_NUM), err_open_lots, err_open, err_unopened,
            err_vidmap, err_stdin_out, err_syscall_num >>
ToRefuse(t) == IF t = 3 THEN 1 ELSE Len(Tests[t])

Make(c) ==
  \/ c.call = "open" /\ syscall_open(c.arg)
  \/ c.call = "read" /\ syscall_read(c.arg, 31)
  \/ c.call = "write" /\ syscall_write(c.arg, 31)
  \/ c.call = "close" /\ syscall_close(c.arg)
  \/ c.call = "vidmap" /\ syscall_vidmap(c.arg)
  \/ c.call = "number" /\ syscall_entry(c.arg)

(* main: test 0 is all of them in turn, and there is no test 9. *)
SyserrMain ==
  /\ my.prog = "syserr" /\ my.at = "main"
  /\ IF my.arg > Len(Tests) THEN Exit(0)
     ELSE my' = [my EXCEPT !.at = "test", !.test = Max({1, my.arg}), !.call = 1]
  /\ UNCHANGED vars

SyserrCall ==
  LET t == Tests[my.test]
  IN  /\ my.prog = "syserr" /\ my.at = "test" /\ my.call <= Len(t)
      /\ Make(t[my.call])
      /\ my' = [my EXCEPT !.call = @ + 1,
                  !.refused = IF t[my.call].counted /\ ret'.val = -1 THEN @ + 1 ELSE @]

SyserrVerdict ==
  LET pass == my.refused = ToRefuse(my.test)
      last == my.arg # 0 \/ my.test = Len(Tests)
      status == IF pass THEN my.status ELSE my.status + 2
  IN  /\ my.prog = "syserr" /\ my.at = "test" /\ my.call > Len(Tests[my.test])
      /\ my' = [my EXCEPT !.out = Append(@, pass), !.status = status, !.refused = 0,
                  !.at = IF last THEN "exit" ELSE "test",
                  !.test = IF last THEN @ ELSE @ + 1, !.call = 1]
      /\ UNCHANGED vars

-----------------------------------------------------------------------------
Start ==
  /\ my.at = "idle"
  /\ syscall_execute
  /\ \E p \in ({"cat"} \X (Name \cup {NoArg})) \cup {<<"ls", 0>>}
               \cup ({"grep"} \X {0, NoArg}) \cup ({"syserr"} \X (0..9)) :
       my' = [Idle EXCEPT !.prog = p[1], !.arg = p[2], !.at = "main"]

Halt == my.at = "exit" /\ syscall_halt /\ my' = Idle

AnyProgram == my.at = "idle" /\ AnyCall /\ UNCHANGED my

ProgNext ==
  \/ AnyProgram \/ Start \/ Halt
  \/ GetargsFails
  \/ ListerOpen \/ ListerRead \/ ListerWrite
  \/ Grep
  \/ SyserrMain \/ SyserrCall \/ SyserrVerdict

ProgSpec == ProgInit /\ [][ProgNext]_progVars

-----------------------------------------------------------------------------
(* Properties *)

(* The bytes of the files whose names do not begin with '.', in order. *)
Searched ==
  Joined([i \in DOMAIN files |->
    IF files[i].key \in Hidden \/ files[i].type # 2 THEN <<>>
    ELSE Content([op |-> "file", inode |-> files[i].inode])])

(* What cat should write. *)
CatWrites(name) ==
  LET i == read_dentry_by_name(name)
  IN  IF i = -1 \/ files[i].type = 0 THEN <<>>
      ELSE Content([op |-> OpsOf(files[i].type), inode |-> files[i].inode])

(***************************************************************************)
(* Whatever the program that executed it has open or has done, a program   *)
(* ends as it should: cat has written its file and ls every name, however  *)
(* the reads cut the file; grep has read every file to its end with the    *)
(* two descriptors it uses over and over; and every test of syserr passes, *)
(* alone or after the others.  cat and grep without an argument do         *)
(* nothing and return 3.                                                   *)
(***************************************************************************)
OutputRight ==
  my.at = "exit" =>
    IF my.arg = NoArg THEN my.out = <<>> /\ my.status = 3
    ELSE CASE my.prog = "cat" ->
                /\ my.out = CatWrites(my.arg)
                /\ my.status = IF read_dentry_by_name(my.arg) = -1 THEN 2 ELSE 0
           [] my.prog = "ls" ->
                /\ my.out = Joined([i \in DOMAIN files |-> <<"try", files[i].key, "newline">>])
                /\ my.status = 0
           [] my.prog = "grep" -> my.out = Searched /\ my.status = 0
           [] my.prog = "syserr" ->
                /\ my.status = 0
                /\ Len(my.out) = CASE my.arg = 0 -> 8 [] my.arg \in 1..8 -> 1 [] OTHER -> 0
=============================================================================
