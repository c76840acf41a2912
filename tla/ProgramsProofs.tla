--------------------------- MODULE ProgramsProofs ---------------------------
(***************************************************************************)
(* cat, ls, grep and syserr over the descriptors, for any image that the   *)
(* image builder can make, any size of block, buffer and file, and any     *)
(* number of descriptors: what a program has processed when it exits.      *)
(***************************************************************************)
EXTENDS FilesProofs

(* Programs other than the one that may do anything start with nothing     *)
(* open and nothing done.                                                  *)
StartInv ==
  /\ my.at # "idle" => /\ my.prog \in {"cat", "ls", "grep", "syserr"}
                       /\ my.prog = "syserr" => my.arg \in 0..9
  /\ my.at = "main" =>
       Taken = {} /\ my.out = <<>> /\ my.status = 0 /\ my.refused = 0

(* cat and ls: what they open, and how they write what they have read. *)
Wanted == IF my.prog = "cat" THEN my.arg ELSE Dot
Written(x) ==
  IF my.prog = "ls" THEN Joined([k \in 1..Len(x) |-> <<"try", x[k], "newline">>]) ELSE x

(* What is in the buffer has been read and is still to be written. *)
Pending ==
  /\ my.buf # <<>> /\ my.buf \in Seq(Item) /\ (my.prog = "ls" => Len(my.buf) = 1)
  /\ \E x \in Seq(Item) : my.out = Written(x) /\ x \o my.buf = HasRead(my.fd)

ListerGoes ==
  /\ my.status = 0 /\ my.arg # NoArg
  /\ \E pos \in Nat : OpenedAt(my.fd, read_dentry_by_name(Wanted), pos)
  /\ my.at = "read" => my.out = Written(HasRead(my.fd))
  /\ my.at = "write" => Pending

ListerInv == Lister /\ my.at \in {"read", "write"} => ListerGoes

(* grep: what is to be searched of entry i of the directory, and of the    *)
(* first k.                                                                *)
SearchedIn(i) ==
  IF files[i].key \in Hidden \/ files[i].type # 2 THEN <<>>
  ELSE Content([op |-> "file", inode |-> files[i].inode])
SearchedTo(k) == Joined([i \in 1..k |-> SearchedIn(i)])

GrepAt(pos) ==
  /\ my.at = "entry" => Taken = {my.fd} /\ my.out = SearchedTo(pos)
  /\ my.at # "entry" => pos > 0 /\ files[pos].key \notin Hidden
  /\ my.at = "open" => /\ Taken = {my.fd} /\ my.out = SearchedTo(pos - 1)
                       /\ my.buf[1] = files[pos].key
  /\ my.at \in {"search", "close"} =>
       /\ Taken = {my.fd, my.file} /\ my.fd # my.file
       /\ \E q \in Nat : OpenedAt(my.file, pos, q)
  /\ my.at = "search" => my.out = SearchedTo(pos - 1) \o HasRead(my.file)
  /\ my.at = "close" => my.out = SearchedTo(pos)

GrepGoes ==
  /\ my.status = 0 /\ my.arg # NoArg
  /\ \E pos \in Nat : OpenedAt(my.fd, read_dentry_by_name(Dot), pos) /\ GrepAt(pos)

GrepInv ==
  my.prog = "grep" /\ my.at \in {"entry", "open", "search", "close"} => GrepGoes

(* syserr: every call of a test is refused, but for the opens of the third *)
(* test, which take all descriptors before the last is refused.            *)
SyserrAt(t, c, taken, refused) ==
  /\ c \in 1..(Len(Tests[t]) + 1)
  /\ t # 3 => taken = {} /\ refused = c - 1
  /\ t = 3 /\ c < FD_NUM => taken = 2..c /\ refused = 0
  /\ t = 3 /\ c >= FD_NUM =>
       taken = (2 + (c - FD_NUM))..(FD_NUM - 1) /\ refused = 1

(* The tests that are over when test t of those that arg asks for begins. *)
Verdicts(arg, t) == IF arg = 0 THEN t - 1 ELSE 0

SyserrGoes ==
  /\ my.status = 0 /\ my.test \in 1..8 /\ my.arg \in {0, my.test}
  /\ my.out \in Seq(BOOLEAN) /\ Len(my.out) = Verdicts(my.arg, my.test)
  /\ SyserrAt(my.test, my.call, Taken, my.refused)

SyserrInv == my.prog = "syserr" /\ my.at = "test" => SyserrGoes

ProgInv ==
  /\ DOMAIN my = DOMAIN Idle
  /\ StartInv /\ ListerInv /\ GrepInv /\ SyserrInv /\ OutputRight

(* cat and ls write what they read piece by piece as they would at once. *)
LEMMA WrittenMore ==
  ASSUME NEW x \in Seq(Item), NEW y \in Seq(Item), my.prog = "ls" => Len(y) = 1
  PROVE  Written(x \o y)
           = Written(x) \o IF my.prog = "ls" THEN <<"try">> \o y \o <<"newline">> ELSE y
<1>1. CASE my.prog # "ls"
  BY <1>1 DEF Written
<1>2. CASE my.prog = "ls"
  <2>1. PICK n \in Nat, k \in Item : n = Len(x) /\ k = y[1] /\ y = <<k>>
    <3>1. Len(y) = 1 /\ y[1] \in Item
      BY <1>2, ElementOfSeq
    <3>2. <<y[1]>> \in Seq(Item) /\ Len(<<y[1]>>) = 1 /\ <<y[1]>>[1] = y[1]
      BY <3>1
    <3>3. y = <<y[1]>>
      BY <3>1, <3>2, SeqEqual
    <3> QED  BY <3>1, <3>3, LenProperties
  <2>2. PICK z : z = x \o y
    BY Zenon
  <2>3. /\ z \in Seq(Item) /\ Len(z) = n + 1 /\ z[n + 1] = k
        /\ \A j \in 1..n : z[j] = x[j]
    <3>1. /\ z \in Seq(Item) /\ Len(z) = Len(x) + Len(y)
          /\ \A j \in 1..(Len(x) + Len(y)) : z[j] = IF j <= Len(x) THEN x[j] ELSE y[j - Len(x)]
      BY <2>2, ConcatProperties
    <3>2. Len(x) = n /\ Len(y) = 1 /\ n + 1 - n = 1 /\ ~(n + 1 <= n)
      BY <1>2, <2>1
    <3> QED  BY <2>1, <3>1, <3>2
  <2> DEFINE Cell3 == Item \cup {"try", "newline"}
             f == [j \in 1..(n + 1) |-> <<"try", z[j], "newline">>]
  <2>4. \A j \in 1..(n + 1) : f[j] \in Seq(Cell3)
    <3>1. \A j \in 1..(n + 1) : z[j] \in Item
      BY <2>3, ElementOfSeq
    <3> QED  BY <3>1
  <2>5. Written(z) = UpTo(f, n + 1)
    <3>1. [j \in 1..(n + 1) |-> f[j]] = [j \in 1..(n + 1) |-> <<"try", z[j], "newline">>]
      OBVIOUS
    <3> QED  BY <1>2, <2>3, <3>1, Zenon DEF Written, UpTo
  <2>6. Written(x) = UpTo(f, n)
    <3>1. [j \in 1..n |-> f[j]] = [j \in 1..n |-> <<"try", x[j], "newline">>]
      BY <2>3
    <3> QED  BY <1>2, <2>1, <3>1, Zenon DEF Written, UpTo
  <2>7. f[n + 1] = <<"try", k, "newline">>
    BY <2>3
  <2>8. <<"try">> \o y \o <<"newline">> = <<"try", k, "newline">>
    BY <2>1, ThreeParts, Zenon
  <2> HIDE DEF f, Cell3
  <2>9. UpTo(f, n + 1) = UpTo(f, n) \o f[n + 1]
    <3>1. PICK m \in Nat : m = n + 1 /\ m \in 1..m /\ m - 1 = n
      OBVIOUS
    <3>2. \A j \in 1..m : f[j] \in Seq(Cell3)
      BY <2>4, <3>1, Zenon
    <3>3. /\ UpTo(f, 0) = <<>>
          /\ \A l \in 0..m : UpTo(f, l) \in Seq(Cell3)
          /\ \A l \in 1..m : UpTo(f, l) = UpTo(f, l - 1) \o f[l]
      BY <3>2, JoinedGrows, ZenonT(60)
    <3> QED  BY <3>1, <3>3, Zenon
  <2> QED  BY <1>2, <2>2, <2>5, <2>6, <2>7, <2>8, <2>9, Zenon
<1> QED
  BY <1>1, <1>2
-----------------------------------------------------------------------------
(* Where the programs are *)

(* What OutputRight says of a program that exits. *)
EndRight ==
  IF my.arg = NoArg THEN my.out = <<>> /\ my.status = 3
  ELSE CASE my.prog = "cat" ->
              /\ my.out = CatWrites(my.arg)
              /\ my.status = IF read_dentry_by_name(my.arg) = -1 THEN 2 ELSE 0
         [] my.prog = "ls" ->
              /\ my.out = Joined([i \in DOMAIN files |-> <<"try", files[i].key, "newline">>])
              /\ my.status = 0
         [] my.prog = "grep" -> my.out = Searched /\ my.status = 0
         [] my.prog = "syserr" ->
              /\ my.status = 0
              /\ Len(my.out) = CASE my.arg = 0 -> 8 [] my.arg \in 1..8 -> 1 [] OTHER -> 0

LEMMA MyFields == DOMAIN Idle = {"prog", "arg", "at", "fd", "file", "buf", "test", "call",
                                 "refused", "out", "status"}
<1> QED
  BY DEF Idle

(* A program that goes on as itself. *)
Same == /\ my'.prog = my.prog /\ my'.arg = my.arg /\ DOMAIN my' = DOMAIN my
        /\ my.at # "idle" /\ my'.at # "main"

(* Where a step has brought it, and what is to be shown of it there. *)
LEMMA Arrived ==
  ASSUME ProgInv, Same,
         my'.at = "exit" => EndRight',
         Lister /\ my'.at \in {"read", "write"} => ListerGoes',
         my.prog = "grep" /\ my'.at \in {"entry", "open", "search", "close"} => GrepGoes',
         my.prog = "syserr" /\ my'.at = "test" => SyserrGoes'
  PROVE  ProgInv'
<1>1. StartInv' /\ (DOMAIN my = DOMAIN Idle)'
  BY Zenon DEF ProgInv, StartInv, Same, Idle
<1>2. ListerInv' /\ GrepInv' /\ SyserrInv'
  BY Zenon DEF ListerInv, GrepInv, SyserrInv, Same, Lister
<1>3. OutputRight'
  BY Zenon DEF OutputRight, EndRight
<1> QED
  BY <1>1, <1>2, <1>3 DEF ProgInv

LEMMA Exits ==
  ASSUME ProgInv, my.at # "idle", NEW s, Exit(s),
         my.prog = my'.prog /\ my.arg = my'.arg /\ my.out = my'.out /\ my'.status = s => EndRight'
  PROVE  ProgInv'
<1>1. DOMAIN my = {"prog", "arg", "at", "fd", "file", "buf", "test", "call",
                   "refused", "out", "status"}
  BY MyFields DEF ProgInv
<1>2. /\ my'.prog = my.prog /\ my'.arg = my.arg /\ my'.out = my.out /\ my'.status = s
      /\ my'.at = "exit" /\ DOMAIN my' = DOMAIN my
  BY <1>1 DEF Exit
<1> QED
  BY <1>2, Arrived DEF Same

LEMMA Waiting ==
  ASSUME DOMAIN my' = DOMAIN Idle, my'.at = "idle"
  PROVE  ProgInv'
<1> QED
  BY Zenon DEF ProgInv, StartInv, ListerInv, GrepInv, SyserrInv, OutputRight, Idle

LEMMA StartKeeps ==
  ASSUME FilesInv, Start
  PROVE  ProgInv'
<1>1. PICK p \in ({"cat"} \X (Name \cup {NoArg})) \cup {<<"ls", 0>>}
                   \cup ({"grep"} \X {0, NoArg}) \cup ({"syserr"} \X (0..9)) :
        my' = [Idle EXCEPT !.prog = p[1], !.arg = p[2], !.at = "main"]
  BY Zenon DEF Start
<1>2. /\ p[1] \in {"cat", "ls", "grep", "syserr"}
      /\ p[1] = "syserr" => p[2] \in 0..9
  BY <1>1
<1>3. /\ my'.prog = p[1] /\ my'.arg = p[2] /\ my'.at = "main" /\ DOMAIN my' = DOMAIN Idle
      /\ my'.out = <<>> /\ my'.status = 0 /\ my'.refused = 0
  BY <1>1 DEF Idle
<1>4. Taken' = {}
  <2>1. cur' = cur + 1 /\ pcb_fds' = [pcb_fds EXCEPT ![cur + 1] = init_file_table]
    BY DEF Start, syscall_execute
  <2>2. cur + 1 \in Prog
    BY FilesAssumption DEF FilesInv, Start, syscall_execute, Prog
  <2>3. pcb_fds = [q \in Prog |-> pcb_fds[q]]
    BY DEF FilesInv, Tables
  <2>4. pcb_fds'[cur'] = init_file_table
    BY <2>1, <2>2, <2>3
  <2>5. \A fd \in 2..(FD_NUM - 1) : ~ init_file_table[fd].used
    BY FdRange, Fields DEF init_file_table
  <2> QED  BY <2>4, <2>5, Zenon DEF Taken
<1> QED
  BY <1>2, <1>3, <1>4, Zenon
  DEF ProgInv, StartInv, ListerInv, GrepInv, SyserrInv, OutputRight, Idle

LEMMA GetargsKeeps ==
  ASSUME ProgInv, GetargsFails
  PROVE  ProgInv'
<1>1. my.at = "main" /\ my.out = <<>> /\ my.arg = NoArg /\ Exit(3)
  BY Zenon DEF GetargsFails, ProgInv, StartInv
<1>2. my.prog = my'.prog /\ my.arg = my'.arg /\ my.out = my'.out /\ my'.status = 3 => EndRight'
  BY <1>1, Zenon DEF EndRight
<1> QED
  BY <1>1, <1>2, Exits

(* The directory is found by its name. *)
LEMMA DotFound ==
  /\ read_dentry_by_name(Dot) \in DOMAIN files /\ read_dentry_by_name(Dot) # -1
  /\ files[read_dentry_by_name(Dot)].type = 1
<1>1. PICK i \in DOMAIN files : files[i].key = Dot.key /\ files[i].type = 1 /\ ~ Dot.long
  BY ImageAssumption
<1>2. read_dentry_by_name(Dot) = Min({j \in DOMAIN files : files[j].key = Dot.key})
  BY <1>1 DEF read_dentry_by_name
<1>3. {j \in DOMAIN files : files[j].key = Dot.key} = {i} /\ i \in Nat
  BY <1>1, ImageAssumption, FilesAssumption
<1>4. read_dentry_by_name(Dot) = i
  BY <1>2, <1>3, MinIs
<1> QED
  BY <1>1, <1>3, <1>4

-----------------------------------------------------------------------------
(* cat and ls *)

LEMMA NothingWritten == Written(<<>>) = <<>>
<1> DEFINE parts == [k \in 1..Len(<<>>) |-> <<"try", <<>>[k], "newline">>]
<1>1. Len(parts) = 0
  OBVIOUS
<1>2. Joined(parts) = <<>>
  BY <1>1 DEF Joined
<1> QED
  BY <1>2, Zenon DEF Written

(* All of what they open, written, is what they should write. *)
LEMMA AllWritten ==
  ASSUME Lister, NEW i, i = read_dentry_by_name(Wanted), i \in DOMAIN files
  PROVE  /\ my.prog = "cat" => Written(AllOf(i)) = CatWrites(my.arg)
         /\ my.prog = "ls" =>
              Written(AllOf(i)) = Joined([j \in DOMAIN files |-> <<"try", files[j].key, "newline">>])
<1>1. ASSUME my.prog = "cat" PROVE Written(AllOf(i)) = CatWrites(my.arg)
  <2>1. i # -1 /\ i = read_dentry_by_name(my.arg) /\ Written(AllOf(i)) = AllOf(i)
    BY <1>1, FilesAssumption DEF Wanted, Written
  <2>2. PICK op, node : op = OpsOf(files[i].type) /\ node = files[i].inode
    BY Zenon
  <2>3. Content(Opened(op, node, 0)) = Content([op |-> op, inode |-> node])
    BY DEF Content, Opened
  <2> QED  BY <2>1, <2>2, <2>3, Zenon DEF CatWrites, AllOf
<1>2. ASSUME my.prog = "ls"
      PROVE  Written(AllOf(i)) = Joined([j \in DOMAIN files |-> <<"try", files[j].key, "newline">>])
  <2>1. files[i].type = 1
    BY <1>2, DotFound DEF Wanted
  <2>2. AllOf(i) = [j \in DOMAIN files |-> files[j].key]
    <3>1. AllOf(i) = Content(Opened("dir", files[i].inode, 0))
      BY <2>1 DEF AllOf, OpsOf
    <3> QED  BY <3>1, DirContent, Zenon
  <2>3. PICK x, L : x = AllOf(i) /\ L = Len(files) /\ L \in Nat /\ DOMAIN files = 1..L
    BY FilesAssumption, Zenon
  <2>4. Len(x) = L /\ \A k \in 1..L : x[k] = files[k].key
    BY <2>2, <2>3
  <2>5. [k \in 1..Len(x) |-> <<"try", x[k], "newline">>]
          = [j \in DOMAIN files |-> <<"try", files[j].key, "newline">>]
    BY <2>3, <2>4, Zenon
  <2> QED  BY <1>2, <2>3, <2>5, Zenon DEF Written
<1> QED
  BY <1>1, <1>2, Zenon

LEMMA ListerOpenKeeps ==
  ASSUME FilesInv, ProgInv, ListerOpen
  PROVE  ProgInv'
<1>1. /\ Lister /\ my.at = "main" /\ Taken = {} /\ my.out = <<>> /\ my.status = 0
      /\ my.arg # NoArg /\ syscall_open(Wanted)
  BY Zenon DEF ListerOpen, ProgInv, StartInv, Wanted
<1>2. PICK i : i = read_dentry_by_name(Wanted)
  BY Zenon
<1>3. ~(2..(FD_NUM - 1) \subseteq Taken)
  BY <1>1, FilesAssumption
<1>4. CASE i = -1
  <2>1. Exit(2)
    BY <1>1, <1>2, <1>4, OpenGoes, Zenon DEF ListerOpen
  <2>2. my.prog = "cat"
    BY <1>1, <1>2, <1>4, DotFound DEF Lister, Wanted
  <2>3. CatWrites(my.arg) = <<>> /\ read_dentry_by_name(my.arg) = -1
    BY <1>2, <1>4, <2>2, Zenon DEF CatWrites, Wanted
  <2>4. my.prog = my'.prog /\ my.arg = my'.arg /\ my.out = my'.out /\ my'.status = 2 => EndRight'
    BY <1>1, <2>2, <2>3, Zenon DEF EndRight, CatWrites
  <2> QED  BY <1>1, <2>1, <2>4, Exits
<1>5. CASE i # -1
  <2>1. PICK fd : OpenTo(fd, i)
    BY <1>1, <1>2, <1>3, <1>5, OpenGoes, Zenon
  <2>2. my' = [my EXCEPT !.at = "read", !.fd = fd]
    BY <2>1, Zenon DEF ListerOpen, OpenTo
  <2>3. /\ my'.prog = my.prog /\ my'.arg = my.arg /\ my'.out = my.out /\ my'.status = my.status
        /\ my'.at = "read" /\ my'.fd = fd /\ DOMAIN my' = DOMAIN my
    BY <2>2, MyFields DEF ProgInv
  <2>4. Wanted' = Wanted /\ Written(<<>>)' = Written(<<>>)
    BY <2>3, Zenon DEF Wanted, Written
  <2>5. ListerGoes'
    <3>1. OpenedAt(my.fd, read_dentry_by_name(Wanted), 0)'
      BY <1>2, <2>1, <2>3, <2>4, Zenon DEF OpenTo, OpenedAt, read_dentry_by_name
    <3>2. (my.out = Written(HasRead(my.fd)))'
      BY <1>1, <2>1, <2>3, <2>4, NothingWritten, Zenon DEF OpenTo, HasRead, Written
    <3>3. 0 \in Nat
      OBVIOUS
    <3> QED  BY <1>1, <2>3, <3>1, <3>2, <3>3, Zenon DEF ListerGoes
  <2> QED  BY <1>1, <2>3, <2>5, Arrived, Zenon DEF Same, Lister
<1> QED
  BY <1>4, <1>5

LEMMA ListerReadKeeps ==
  ASSUME FilesInv, ProgInv, ListerRead
  PROVE  ProgInv'
<1>1. PICK fd, i : fd = my.fd /\ i = read_dentry_by_name(Wanted)
  BY Zenon
<1>2. /\ Lister /\ my.at = "read" /\ my.status = 0 /\ my.out = Written(HasRead(fd)) /\ my.arg # NoArg
      /\ syscall_read(fd, BUFSIZE) /\ \E pos \in Nat : OpenedAt(fd, i, pos)
  BY <1>1, Zenon DEF ListerRead, ProgInv, ListerInv, ListerGoes
<1>3. PICK pos : OpenedAt(fd, i, pos)
  BY <1>2, Zenon
<1>4. NoWrap(BUFSIZE) /\ BUFSIZE > 0
  BY ProgramsAssumption
<1>5. PICK q \in Nat : ReadTo(fd, i, pos, q)
  BY <1>2, <1>3, <1>4, ReadGoes, Zenon
<1>6. i \in DOMAIN files /\ i # -1 /\ HasRead(fd) \in Seq(Item)
  BY <1>3, OpenedIn, ReturnedSeq, FilesAssumption
<1>7. CASE ret'.val = 0
  <2>1. Exit(0)
    BY <1>7 DEF ListerRead
  <2>2. my.out = Written(AllOf(i))
    BY <1>2, <1>5, <1>7, Zenon DEF ReadTo
  <2>3. /\ my.prog = "cat" => my.out = CatWrites(my.arg) /\ read_dentry_by_name(my.arg) # -1
        /\ my.prog = "ls" =>
             my.out = Joined([j \in DOMAIN files |-> <<"try", files[j].key, "newline">>])
    BY <1>1, <1>2, <1>6, <2>2, AllWritten, Zenon DEF Wanted
  <2>4. my.prog = my'.prog /\ my.arg = my'.arg /\ my.out = my'.out /\ my'.status = 0 => EndRight'
    BY <1>2, <2>3, Zenon DEF EndRight, CatWrites, Lister
  <2> QED  BY <1>2, <2>1, <2>4, Exits
<1>8. CASE ret'.val # 0
  <2>1. my' = [my EXCEPT !.at = "write", !.buf = NewBytes(fd)]
    BY <1>1, <1>5, <1>8 DEF ListerRead, ReadTo
  <2>2. /\ my'.prog = my.prog /\ my'.arg = my.arg /\ my'.out = my.out /\ my'.status = my.status
        /\ my'.at = "write" /\ my'.fd = fd /\ my'.buf = NewBytes(fd) /\ DOMAIN my' = DOMAIN my
    BY <1>1, <2>1, MyFields DEF ProgInv
  <2>3. OpenedAt(my.fd, read_dentry_by_name(Wanted), q)'
    BY <1>1, <1>5, <2>2, Zenon DEF ReadTo, OpenedAt, read_dentry_by_name, Wanted
  <2>4. Pending'
    <3>1. my.prog = "ls" => Len(NewBytes(fd)) = 1
      <4>1. ASSUME my.prog = "ls" PROVE NewBytes(fd) = <<files[q].key>>
        BY <1>1, <1>5, <1>8, <4>1, DotFound, Zenon DEF ReadTo, Wanted
      <4> QED  BY <4>1
    <3>2. NewBytes(fd) # <<>> /\ NewBytes(fd) \in Seq(Item)
      BY <1>5, <1>8, Zenon DEF ReadTo
    <3>3. /\ my'.out = Written(HasRead(fd))
          /\ HasRead(fd) \o my'.buf = HasRead(fd)'
      BY <1>2, <1>5, <2>2, Zenon DEF ReadTo
    <3>4. PICK x \in Seq(Item) : x = HasRead(fd)
      BY <1>6, Zenon
    <3>5. my'.out = Written(x)' /\ x \o my'.buf = HasRead(my.fd)'
      BY <1>2, <2>2, <3>3, <3>4, Zenon DEF Written, HasRead
    <3> QED  BY <2>2, <3>1, <3>2, <3>5, Zenon DEF Pending, Item
  <2>5. ListerGoes'
    BY <1>2, <1>5, <2>2, <2>3, <2>4, Zenon DEF ListerGoes
  <2> QED  BY <1>2, <2>2, <2>5, Arrived, Zenon DEF Same, Lister
<1> QED
  BY <1>7, <1>8

LEMMA ListerWriteKeeps ==
  ASSUME FilesInv, ProgInv, ListerWrite
  PROVE  ProgInv'
<1>1. PICK fd, i, b : fd = my.fd /\ i = read_dentry_by_name(Wanted) /\ b = my.buf
  BY Zenon
<1>2. /\ Lister /\ my.at = "write" /\ my.status = 0 /\ my.arg # NoArg /\ Pending
      /\ syscall_write(1, Len(b)) /\ \E pos \in Nat : OpenedAt(fd, i, pos)
  BY <1>1, Zenon DEF ListerWrite, ProgInv, ListerInv, ListerGoes
<1>3. PICK pos \in Nat : OpenedAt(fd, i, pos)
  BY <1>2, Zenon
<1>4. PICK x \in Seq(Item) : my.out = Written(x) /\ x \o b = HasRead(fd)
  BY <1>1, <1>2, Zenon DEF Pending
<1>5. b \in Seq(Item) /\ Len(b) \in Nat \ {0} /\ (my.prog = "ls" => Len(b) = 1)
  BY <1>1, <1>2, EmptySeq DEF Pending
<1>6. ret'.val # -1 /\ UNCHANGED <<pcb_fds, cur, got>>
  BY <1>2, <1>5, WriteGoes, Zenon
<1>7. PICK more : more = IF my.prog = "ls" THEN <<"try">> \o b \o <<"newline">> ELSE b
  BY Zenon
<1>8. my' = [my EXCEPT !.at = "read", !.buf = <<>>, !.out = my.out \o more]
  BY <1>1, <1>6, <1>7, Zenon DEF ListerWrite
<1>9. /\ my'.prog = my.prog /\ my'.arg = my.arg /\ my'.out = my.out \o more
      /\ my'.status = my.status /\ my'.at = "read" /\ my'.fd = fd /\ DOMAIN my' = DOMAIN my
  BY <1>1, <1>8, MyFields DEF ProgInv
<1>10. my'.out = Written(HasRead(fd))
  <2>1. Written(x \o b) = Written(x) \o more
    BY <1>5, <1>7, WrittenMore, Zenon
  <2> QED  BY <1>4, <1>9, <2>1, Zenon
<1>11. OpenedAt(my.fd, read_dentry_by_name(Wanted), pos)' /\ HasRead(my.fd)' = HasRead(fd)
  BY <1>1, <1>3, <1>6, <1>9, Zenon DEF OpenedAt, HasRead, read_dentry_by_name, Wanted
<1>12. ListerGoes'
  <2>1. my'.out = Written(HasRead(my.fd))'
    BY <1>9, <1>10, <1>11, Zenon DEF Written
  <2> QED  BY <1>2, <1>3, <1>9, <1>11, <2>1, Zenon DEF ListerGoes
<1> QED
  BY <1>2, <1>9, <1>12, Arrived, Zenon DEF Same, Lister

-----------------------------------------------------------------------------
(* grep *)

LEMMA SearchedGrows ==
  /\ SearchedTo(0) = <<>>
  /\ \A k \in 1..Len(files) : SearchedTo(k) = SearchedTo(k - 1) \o SearchedIn(k)
  /\ \A k \in 0..Len(files) : SearchedTo(k) \in Seq(Item)
<1> DEFINE f == [i \in 1..Len(files) |-> SearchedIn(i)]
<1>1. Len(files) \in Nat /\ DOMAIN files = 1..Len(files)
  BY FilesAssumption
<1>2. \A i \in 1..Len(files) : f[i] = SearchedIn(i) /\ SearchedIn(i) \in Seq(Item)
  <2>1. TAKE i \in 1..Len(files)
  <2>2. files[i].inode \in DOMAIN inodes
    BY <1>1, FilesAssumption
  <2>3. Content([op |-> "file", inode |-> files[i].inode])
          = Content(Opened("file", files[i].inode, 0))
    BY DEF Content, Opened
  <2>4. SearchedIn(i) \in Seq(Item)
    BY <2>2, <2>3, ContentSeq, EmptySeq, Zenon DEF SearchedIn
  <2> QED  BY <2>4
<1>3. \A k \in 0..Len(files) : SearchedTo(k) = UpTo(f, k)
  <2>1. TAKE k \in 0..Len(files)
  <2>2. \A i \in 1..k : i \in 1..Len(files)
    BY <1>1
  <2>3. [i \in 1..k |-> SearchedIn(i)] = [i \in 1..k |-> f[i]]
    BY <1>2, <2>2, Zenon
  <2> QED  BY <2>3, Zenon DEF SearchedTo, UpTo
<1>4. /\ UpTo(f, 0) = <<>>
      /\ \A k \in 0..Len(files) : UpTo(f, k) \in Seq(Item)
      /\ \A k \in 1..Len(files) : UpTo(f, k) = UpTo(f, k - 1) \o f[k]
  <2>1. \A i \in 1..Len(files) : f[i] \in Seq(Item)
    BY <1>2, Zenon
  <2> HIDE DEF f
  <2> QED  BY <1>1, <2>1, JoinedGrows, Zenon
<1> HIDE DEF f
<1>5. 0 \in 0..Len(files) /\ \A k \in 1..Len(files) : k \in 0..Len(files) /\ k - 1 \in 0..Len(files)
  BY <1>1
<1> QED
  BY <1>2, <1>3, <1>4, <1>5, Zenon

LEMMA GrepOpenKeeps ==
  ASSUME FilesInv, ProgInv, GrepOpen
  PROVE  ProgInv'
<1>1. /\ my.prog = "grep" /\ my.at = "main" /\ Taken = {} /\ my.out = <<>> /\ my.status = 0
      /\ my.arg # NoArg /\ syscall_open(Dot)
  BY Zenon DEF GrepOpen, ProgInv, StartInv
<1>2. ~(2..(FD_NUM - 1) \subseteq Taken)
  BY <1>1, FilesAssumption
<1>3. PICK fd : OpenTo(fd, read_dentry_by_name(Dot))
  BY <1>1, <1>2, DotFound, OpenGoes, Zenon
<1>4. my' = [my EXCEPT !.at = "entry", !.fd = fd]
  BY <1>3, Zenon DEF GrepOpen, OpenTo
<1>5. /\ my'.prog = my.prog /\ my'.arg = my.arg /\ my'.out = my.out /\ my'.status = my.status
      /\ my'.at = "entry" /\ my'.fd = fd /\ DOMAIN my' = DOMAIN my
  BY <1>4, MyFields DEF ProgInv
<1>6. Taken' = {fd}
  BY <1>1, <1>3 DEF OpenTo
<1>7. GrepGoes'
  <2>1. OpenedAt(my.fd, read_dentry_by_name(Dot), 0)'
    BY <1>3, <1>5, Zenon DEF OpenTo, OpenedAt, read_dentry_by_name
  <2>2. GrepAt(0)'
    BY <1>1, <1>5, <1>6, SearchedGrows, Zenon DEF GrepAt, SearchedTo, SearchedIn, Content
  <2>3. 0 \in Nat
    OBVIOUS
  <2> QED  BY <1>1, <1>5, <2>1, <2>2, <2>3, Zenon DEF GrepGoes
<1> QED
  BY <1>1, <1>5, <1>7, Arrived, Zenon DEF Same, Lister

(* Where grep is in the directory. *)
LEMMA GrepIs ==
  ASSUME ProgInv, my.prog = "grep", my.at \in {"entry", "open", "search", "close"}
  PROVE  /\ my.status = 0 /\ my.arg # NoArg
         /\ \E pos \in Nat : OpenedAt(my.fd, read_dentry_by_name(Dot), pos) /\ GrepAt(pos)
<1> QED
  BY Zenon DEF ProgInv, GrepInv, GrepGoes

LEMMA DirPos ==
  ASSUME NEW fd, NEW pos, OpenedAt(fd, read_dentry_by_name(Dot), pos)
  PROVE  pos \in 0..Len(files)
<1>1. OpsOf(files[read_dentry_by_name(Dot)].type) = "dir"
  BY DotFound DEF OpsOf
<1> QED
  BY <1>1 DEF OpenedAt, End

LEMMA GrepEntryKeeps ==
  ASSUME FilesInv, ProgInv, GrepEntry
  PROVE  ProgInv'
<1>1. PICK fd, i : fd = my.fd /\ i = read_dentry_by_name(Dot)
  BY Zenon
<1>2. /\ my.prog = "grep" /\ my.at = "entry" /\ my.status = 0 /\ my.arg # NoArg
      /\ syscall_read(fd, 32)
      /\ \E pos \in Nat : OpenedAt(fd, i, pos) /\ GrepAt(pos)
  BY <1>1, GrepIs, Zenon DEF GrepEntry
<1>3. PICK pos \in Nat : OpenedAt(fd, i, pos) /\ GrepAt(pos)
  BY <1>2, Zenon
<1>4. Taken = {fd} /\ my.out = SearchedTo(pos)
  BY <1>1, <1>2, <1>3, Zenon DEF GrepAt
<1>5. PICK q \in Nat : ReadTo(fd, i, pos, q)
  <2>1. NoWrap(32) /\ 32 > 0
    BY ProgramsAssumption
  <2> QED  BY <1>2, <1>3, <2>1, ReadGoes, Zenon
<1>6. CASE ret'.val = 0
  <2>1. Exit(0)
    BY <1>6 DEF GrepEntry
  <2>2. pos = Len(files)
    BY <1>1, <1>5, <1>6, DotFound, Zenon DEF ReadTo
  <2>3. my.out = Searched
    <3>1. DOMAIN files = 1..Len(files)
      BY FilesAssumption
    <3> QED  BY <1>4, <2>2, <3>1, Zenon DEF SearchedTo, SearchedIn, Searched
  <2>4. my.prog = my'.prog /\ my.arg = my'.arg /\ my.out = my'.out /\ my'.status = 0 => EndRight'
    BY <1>2, <2>3, Zenon DEF EndRight, Searched
  <2> QED  BY <1>2, <2>1, <2>4, Exits
<1>7. CASE ret'.val # 0
  <2>1. /\ q = pos + 1 /\ NewBytes(fd) = <<files[q].key>>
        /\ OpenedAt(fd, i, q)' /\ Taken' = {fd}
    BY <1>1, <1>4, <1>5, <1>7, DotFound, Zenon DEF ReadTo
  <2>2. q \in 1..Len(files) /\ q - 1 = pos /\ q > 0
    <3>1. q \in 0..Len(files)
      BY <1>1, <2>1, DotFound DEF OpenedAt, End, OpsOf
    <3> QED  BY <2>1, <3>1
  <2>3. NewBytes(fd)[1] = files[q].key
    BY <2>1
  <2>4. CASE files[q].key \in Hidden
    <3>1. my' = my
      BY <1>1, <1>5, <1>7, <2>3, <2>4 DEF GrepEntry, ReadTo
    <3>2. my.out = SearchedTo(q)
      <4>1. SearchedIn(q) = <<>>
        BY <2>4 DEF SearchedIn
      <4>2. SearchedTo(q) = SearchedTo(pos) \o <<>> /\ SearchedTo(pos) \in Seq(Item)
        BY <1>1, <1>3, <2>2, <4>1, SearchedGrows, DirPos, Zenon
      <4> QED  BY <1>4, <4>2, ConcatEmptySeq, Zenon
    <3>3. GrepAt(q)'
      BY <1>1, <1>2, <2>1, <3>1, <3>2, Zenon DEF GrepAt, SearchedTo, SearchedIn, Content
    <3>4. GrepGoes'
      BY <1>1, <1>2, <2>1, <3>1, <3>3, Zenon DEF GrepGoes, OpenedAt, read_dentry_by_name
    <3> QED  BY <1>2, <3>1, <3>4, Arrived, Zenon DEF Same, Lister
  <2>5. CASE files[q].key \notin Hidden
    <3>1. my' = [my EXCEPT !.at = "open", !.buf = NewBytes(fd)]
      BY <1>1, <1>5, <1>7, <2>3, <2>5 DEF GrepEntry, ReadTo
    <3>2. /\ my'.prog = my.prog /\ my'.arg = my.arg /\ my'.out = my.out /\ my'.status = my.status
          /\ my'.at = "open" /\ my'.fd = fd /\ my'.buf = NewBytes(fd) /\ DOMAIN my' = DOMAIN my
      BY <1>1, <3>1, MyFields DEF ProgInv
    <3>3. GrepAt(q)'
      BY <1>4, <2>1, <2>2, <2>3, <2>5, <3>2, Zenon DEF GrepAt, SearchedTo, SearchedIn, Content
    <3>4. GrepGoes'
      BY <1>1, <1>2, <2>1, <3>2, <3>3, Zenon DEF GrepGoes, OpenedAt, read_dentry_by_name
    <3> QED  BY <1>2, <3>2, <3>4, Arrived, Zenon DEF Same, Lister
  <2> QED  BY <2>4, <2>5
<1> QED
  BY <1>6, <1>7

(* A file of the directory is found by its name, and all of it is to be    *)
(* searched, unless it is hidden.                                          *)
LEMMA FileFound ==
  ASSUME NEW k \in DOMAIN files
  PROVE  /\ read_dentry_by_name([key |-> files[k].key, long |-> FALSE]) = k
         /\ k # -1
         /\ files[k].key \notin Hidden => AllOf(k) = SearchedIn(k)
<1>1. {j \in DOMAIN files : files[j].key = files[k].key} = {k} /\ k \in Nat
  BY ImageAssumption, FilesAssumption
<1>2. PICK name : name = [key |-> files[k].key, long |-> FALSE]
  BY Zenon
<1>3. name.key = files[k].key /\ ~ name.long
  BY <1>2
<1>4. read_dentry_by_name(name) = Min({k})
  BY <1>1, <1>3, Zenon DEF read_dentry_by_name
<1>5. Min({k}) = k
  BY <1>1, MinIs
<1>6. ASSUME files[k].key \notin Hidden PROVE AllOf(k) = SearchedIn(k)
  <2>1. files[k].type \in {0, 2}
    BY <1>6, FilesAssumption, ImageAssumption
  <2>2. CASE files[k].type = 0
    BY <2>2 DEF AllOf, SearchedIn
  <2>3. CASE files[k].type = 2
    <3>1. Content(Opened("file", files[k].inode, 0))
            = Content([op |-> "file", inode |-> files[k].inode])
      BY DEF Content, Opened
    <3>2. OpsOf(files[k].type) = "file"
      BY <2>3 DEF OpsOf
    <3> QED  BY <1>6, <2>3, <3>1, <3>2 DEF AllOf, SearchedIn
  <2> QED  BY <2>1, <2>2, <2>3
<1> QED
  BY <1>1, <1>2, <1>4, <1>5, <1>6

LEMMA FileKeeps ==
  ASSUME FilesInv, ProgInv, my.prog = "grep", do_one_file
  PROVE  ProgInv'
<1>1. PICK fd, i, f, out :
        fd = my.fd /\ i = read_dentry_by_name(Dot) /\ f = my.file /\ out = my.out
  BY Zenon
<1>2. my.at \in {"open", "search", "close"}
  BY Zenon DEF do_one_file
<1>3. PICK k \in Nat : OpenedAt(fd, i, k) /\ GrepAt(k) /\ my.status = 0 /\ my.arg # NoArg
  BY <1>1, <1>2, GrepIs, Zenon
<1>4. /\ k \in DOMAIN files /\ files[k].key \notin Hidden /\ k > 0
      /\ SearchedTo(k) = SearchedTo(k - 1) \o SearchedIn(k) /\ SearchedTo(k - 1) \in Seq(Item)
  <2>1. k \in 1..Len(files) /\ files[k].key \notin Hidden /\ k > 0
    BY <1>1, <1>2, <1>3, DirPos DEF GrepAt
  <2>2. k - 1 \in 0..Len(files) /\ k \in DOMAIN files
    BY <2>1, FilesAssumption
  <2> QED  BY <2>1, <2>2, SearchedGrows, Zenon
<1>5. fd \in Fd /\ fd \in Taken
  BY <1>3, OpenedIn, Zenon
<1> DEFINE On(place) ==
      /\ my'.prog = my.prog /\ my'.arg = my.arg /\ my'.status = my.status /\ my'.at = place
      /\ my'.fd = fd /\ DOMAIN my' = DOMAIN my
<1>6. ASSUME NEW place \in {"entry", "search", "close"}, On(place),
             NEW d, d # fd, Elsewhere(d), GrepAt(k)'
      PROVE  ProgInv'
  <2>1. cur' = cur /\ pcb_fds'[cur][fd] = pcb_fds[cur][fd]
    BY <1>5, <1>6, Zenon DEF Elsewhere
  <2>2. OpenedAt(fd, i, k)'
    BY <1>3, <2>1, Untouched, Zenon
  <2>3. GrepGoes'
    BY <1>1, <1>3, <1>6, <2>2, Zenon DEF GrepGoes, OpenedAt, read_dentry_by_name
  <2> QED  BY <1>2, <1>6, <2>3, Arrived, Zenon DEF Same, Lister
<1>7. CASE my.at = "open"
  <2>1. /\ syscall_open([key |-> files[k].key, long |-> FALSE])
        /\ Taken = {fd} /\ out = SearchedTo(k - 1)
    BY <1>1, <1>3, <1>7, Zenon DEF do_one_file, GrepAt
  <2>2. ~(2..(FD_NUM - 1) \subseteq Taken)
    <3>1. 2 \in 2..(FD_NUM - 1) /\ 3 \in 2..(FD_NUM - 1) /\ 2 # 3
      BY FilesAssumption, ImageAssumption
    <3> QED  BY <2>1, <3>1
  <2>3. PICK g : OpenTo(g, k)
    BY <1>4, <2>1, <2>2, FileFound, OpenGoes, Zenon
  <2>4. my' = [my EXCEPT !.at = "search", !.file = g]
    BY <1>7, <2>3, Zenon DEF do_one_file, OpenTo
  <2>5. On("search") /\ my'.file = g /\ my'.out = out
    BY <1>1, <2>4, MyFields DEF ProgInv
  <2>6. g # fd /\ Elsewhere(g) /\ Taken' = {fd, g} /\ OpenedAt(g, k, 0)' /\ HasRead(g)' = <<>>
    BY <2>1, <2>3 DEF OpenTo
  <2>7. out = SearchedTo(k - 1) \o <<>>
    BY <1>4, <2>1, ConcatEmptySeq, Zenon
  <2>8. GrepAt(k)'
    <3>1. 0 \in Nat
      OBVIOUS
    <3> QED  BY <1>4, <2>5, <2>6, <2>7, <3>1, Zenon
             DEF GrepAt, HasRead, OpenedAt, SearchedTo, SearchedIn, Content
  <2> QED  BY <1>6, <2>5, <2>6, <2>8, Zenon
<1>8. CASE my.at = "search"
  <2>1. /\ syscall_read(f, BUFSIZE) /\ Taken = {fd, f} /\ fd # f
        /\ out = SearchedTo(k - 1) \o HasRead(f) /\ \E p \in Nat : OpenedAt(f, k, p)
    BY <1>1, <1>3, <1>8, Zenon DEF do_one_file, GrepAt
  <2>2. PICK p \in Nat : OpenedAt(f, k, p)
    BY <2>1, Zenon
  <2>3. PICK q \in Nat : ReadTo(f, k, p, q)
    <3>1. NoWrap(BUFSIZE) /\ BUFSIZE > 0
      BY ProgramsAssumption
    <3> QED  BY <2>1, <2>2, <3>1, ReadGoes, Zenon
  <2>4. Elsewhere(f) /\ OpenedAt(f, k, q)' /\ Taken' = {fd, f}
    BY <2>1, <2>3, Zenon DEF ReadTo
  <2>5. CASE ret'.val = 0
    <3>1. my' = [my EXCEPT !.at = "close"]
      BY <1>8, <2>5 DEF do_one_file, Goto
    <3>2. On("close") /\ my'.file = f /\ my'.out = out
      BY <1>1, <3>1, MyFields DEF ProgInv
    <3>3. out = SearchedTo(k)
      BY <1>4, <2>1, <2>3, <2>5, FileFound, Zenon DEF ReadTo
    <3>4. GrepAt(k)'
      BY <1>4, <2>1, <2>4, <3>2, <3>3, Zenon
      DEF GrepAt, OpenedAt, SearchedTo, SearchedIn, Content
    <3> QED  BY <1>6, <2>1, <2>4, <3>2, <3>4, Zenon
  <2>6. CASE ret'.val # 0
    <3>1. my' = [my EXCEPT !.out = out \o NewBytes(f)]
      BY <1>1, <1>8, <2>3, <2>6, Zenon DEF do_one_file, ReadTo
    <3>2. On("search") /\ my'.file = f /\ my'.out = out \o NewBytes(f)
      BY <1>1, <1>8, <3>1, MyFields DEF ProgInv
    <3>3. my'.out = SearchedTo(k - 1) \o HasRead(f)'
      <4>1. HasRead(f) \in Seq(Item)
        BY <2>2, OpenedIn, ReturnedSeq
      <4>2. NewBytes(f) \in Seq(Item) /\ HasRead(f) \o NewBytes(f) = HasRead(f)'
        BY <2>3, Zenon DEF ReadTo
      <4>3. (SearchedTo(k - 1) \o HasRead(f)) \o NewBytes(f)
              = SearchedTo(k - 1) \o (HasRead(f) \o NewBytes(f))
        <5>1. PICK s \in Seq(Item), t \in Seq(Item), u \in Seq(Item) :
                s = SearchedTo(k - 1) /\ t = HasRead(f) /\ u = NewBytes(f)
          BY <1>4, <4>1, <4>2, Zenon
        <5>2. (s \o t) \o u = s \o (t \o u)
          BY ConcatAssociative
        <5> QED  BY <5>1, <5>2, Zenon
      <4> QED  BY <2>1, <3>2, <4>2, <4>3, Zenon
    <3>4. GrepAt(k)'
      BY <1>4, <2>1, <2>4, <3>2, <3>3, Zenon
      DEF GrepAt, HasRead, OpenedAt, SearchedTo, SearchedIn, Content
    <3> QED  BY <1>6, <2>1, <2>4, <3>2, <3>4, Zenon
  <2> QED  BY <2>5, <2>6
<1>9. CASE my.at = "close"
  <2>1. /\ syscall_close(f) /\ Taken = {fd, f} /\ fd # f /\ out = SearchedTo(k)
    BY <1>1, <1>3, <1>9, Zenon DEF do_one_file, GrepAt
  <2>2. f \in Taken
    BY <2>1
  <2>3. ret'.val = 0 /\ Taken' = Taken \ {f} /\ Elsewhere(f)
    BY <2>1, <2>2, CloseGoes
  <2>4. my' = [my EXCEPT !.at = "entry"]
    BY <1>9, <2>3 DEF do_one_file, Goto
  <2>5. On("entry") /\ my'.out = out
    BY <1>1, <2>4, MyFields DEF ProgInv
  <2>6. Taken' = {fd}
    BY <2>1, <2>3
  <2>7. GrepAt(k)'
    BY <2>1, <2>5, <2>6, Zenon DEF GrepAt, SearchedTo, SearchedIn, Content
  <2> QED  BY <1>6, <2>1, <2>3, <2>5, <2>7, Zenon
<1> QED
  BY <1>2, <1>7, <1>8, <1>9, Zenon

-----------------------------------------------------------------------------
(* syserr *)

(* The arguments with which a call of a program that has nothing open is   *)
(* refused, and such calls.                                                *)
BadArg(call) ==
  CASE call = "open" -> {Absent}
    [] call = "read" -> {-1, 1} \cup 2..FD_NUM
    [] call = "write" -> {-1, 0} \cup 2..FD_NUM
    [] call = "close" -> {-1, 0, 1} \cup 2..FD_NUM
    [] call = "vidmap" -> {"null", "kernel"}
    [] call = "number" -> {11, -1, 0}

FailingOf(call) == {Counted(<<call, arg>>) : arg \in BadArg(call)}
Failing ==
  UNION {FailingOf(call) : call \in {"open", "read", "write", "close", "vidmap", "number"}}

LEMMA AllFail ==
  ASSUME NEW call \in {"open", "read", "write", "close", "vidmap", "number"},
         NEW args \in Seq(BadArg(call))
  PROVE  All(call, args) \in Seq(Failing)
<1>1. \A k \in 1..Len(args) : args[k] \in BadArg(call)
  BY ElementOfSeq
<1>2. \A k \in 1..Len(args) : Counted(<<call, args[k]>>) \in Failing
  <2>1. \A arg \in BadArg(call) : Counted(<<call, arg>>) \in FailingOf(call)
    BY DEF FailingOf
  <2>2. FailingOf(call) \subseteq Failing
    BY DEF Failing
  <2> QED  BY <1>1, <2>1, <2>2, Zenon
<1>3. DOMAIN args = 1..Len(args) /\ Len(args) \in Nat
  BY LenProperties
<1> QED
  BY <1>2, <1>3 DEF All

(* Every test but the third consists of such calls. *)
LEMMA TestsFail ==
  ASSUME NEW t \in 1..8, t # 3
  PROVE  Tests[t] \in Seq(Failing)
<1>1. ASSUME NEW x \in Seq(Failing), NEW y \in Seq(Failing) PROVE x \o y \in Seq(Failing)
  BY ConcatProperties, Zenon
<1>2. ASSUME NEW B, 2..FD_NUM \subseteq B PROVE Fds \in Seq(B)
  BY <1>2, FilesAssumption DEF Fds
<1>3. ASSUME NEW fd \in {-1, FD_NUM} PROVE err_bad_fd(fd) \in Seq(Failing)
  <2>1. FD_NUM \in 2..FD_NUM
    BY FilesAssumption
  <2>2. <<fd>> \in Seq(BadArg("read")) /\ <<fd>> \in Seq(BadArg("write")) /\ <<fd>> \in Seq(BadArg("close"))
    BY <2>1 DEF BadArg
  <2> QED  BY <1>1, <2>2, AllFail, Zenon DEF err_bad_fd
<1>4. err_open \in Seq(Failing)
  <2>1. <<Absent, Absent, Absent>> \in Seq(BadArg("open"))
    BY DEF BadArg
  <2> QED  BY <2>1, AllFail, Zenon DEF err_open
<1>5. err_unopened \in Seq(Failing)
  <2>1. /\ 2..FD_NUM \subseteq BadArg("close") /\ 2..FD_NUM \subseteq BadArg("read")
        /\ 2..FD_NUM \subseteq BadArg("write") /\ <<0, 1>> \in Seq(BadArg("close"))
    BY DEF BadArg
  <2>2. Fds \in Seq(BadArg("close")) /\ Fds \in Seq(BadArg("read")) /\ Fds \in Seq(BadArg("write"))
    BY <1>2, <2>1, Zenon
  <2>3. <<0, 1>> \o Fds \in Seq(BadArg("close"))
    BY <2>1, <2>2, ConcatProperties, Zenon
  <2> QED  BY <1>1, <2>2, <2>3, AllFail, Zenon DEF err_unopened
<1>6. err_vidmap \in Seq(Failing)
  <2>1. <<"null", "kernel">> \in Seq(BadArg("vidmap"))
    BY DEF BadArg
  <2> QED  BY <2>1, AllFail, Zenon DEF err_vidmap
<1>7. err_stdin_out \in Seq(Failing)
  <2>1. <<0>> \in Seq(BadArg("write")) /\ <<1>> \in Seq(BadArg("read"))
    BY DEF BadArg
  <2> QED  BY <1>1, <2>1, AllFail, Zenon DEF err_stdin_out
<1>8. err_syscall_num \in Seq(Failing)
  <2>1. <<11, -1, 0>> \in Seq(BadArg("number"))
    BY DEF BadArg
  <2> QED  BY <2>1, AllFail, Zenon DEF err_syscall_num
<1>9. err_bad_fd(-1) \in Seq(Failing) /\ err_bad_fd(FD_NUM) \in Seq(Failing)
  BY <1>3, Zenon
<1> QED
  BY <1>4, <1>5, <1>6, <1>7, <1>8, <1>9 DEF Tests

LEMMA CallIs ==
  \A c : /\ Counted(c).call = c[1] /\ Counted(c).arg = c[2] /\ Counted(c).counted
         /\ Uncounted(c).call = c[1] /\ Uncounted(c).arg = c[2] /\ ~ Uncounted(c).counted
<1> QED
  BY DEF Counted, Uncounted

LEMMA Refused ==
  ASSUME FilesInv, Taken = {}, NEW c \in Failing, Make(c)
  PROVE  c.counted /\ ret'.val = -1 /\ UNCHANGED <<pcb_fds, cur, got>>
<1>1. PICK call \in {"open", "read", "write", "close", "vidmap", "number"} :
        \E arg \in BadArg(call) : c = Counted(<<call, arg>>)
  BY Zenon DEF Failing, FailingOf
<1>2. PICK arg \in BadArg(call) : c = Counted(<<call, arg>>)
  BY <1>1, Zenon
<1>3. c.call = call /\ c.arg = arg /\ c.counted
  BY <1>2, CallIs, Zenon
<1>4. ASSUME NEW fd, fd \in {-1} \cup 2..FD_NUM PROVE ~ InUse(fd) /\ fd # 0 /\ fd # 1
  <2>1. fd \in Fd => fd \in 2..(FD_NUM - 1)
    BY <1>4, FilesAssumption DEF Fd
  <2> QED  BY <1>4, <2>1, FilesAssumption DEF InUse, Taken
<1>5. CASE call = "open"
  <2>1. read_dentry_by_name(Absent) = -1
    BY ImageAssumption DEF read_dentry_by_name
  <2>2. syscall_open(Absent)
    BY <1>3, <1>5 DEF Make, BadArg
  <2> QED  BY <1>3, <2>1, <2>2, OpenGoes, Zenon
<1>6. CASE call # "open"
  <2>1. \E x : Refuse(x)
    <3>1. CASE call = "read"
      BY <1>3, <1>4, <3>1, Zenon DEF Make, BadArg, syscall_read
    <3>2. CASE call = "write"
      BY <1>3, <1>4, <3>2 DEF Make, BadArg, syscall_write
    <3>3. CASE call = "close"
      BY <1>3, <1>4, <3>3 DEF Make, BadArg, syscall_close
    <3>4. CASE call \in {"vidmap", "number"}
      BY <1>3, <3>4 DEF Make, syscall_vidmap, syscall_entry
    <3> QED  BY <1>1, <1>6, <3>1, <3>2, <3>3, <3>4
  <2> QED  BY <1>3, <2>1, CallFields DEF Refuse
<1> QED
  BY <1>5, <1>6

(* The third test opens until it is refused, then closes. *)
LEMMA ThirdTest ==
  /\ Len(Tests[3]) = 2 * FD_NUM - 3 /\ Len(Tests) = 8
  /\ \A k \in 1..(FD_NUM - 1) : Tests[3][k] = Counted(<<"open", Dot>>)
  /\ \A k \in FD_NUM..(2 * FD_NUM - 3) : Tests[3][k] = Uncounted(<<"close", k - FD_NUM + 2>>)
<1> DEFINE x == All("open", [k \in 1..(FD_NUM - 1) |-> Dot])
           y == [k \in DOMAIN Fds |-> Uncounted(<<"close", Fds[k]>>)]
           S == {Counted(<<"open", Dot>>)} \cup {Uncounted(<<"close", fd>>) : fd \in 2..FD_NUM}
<1>1. FD_NUM \in Nat /\ FD_NUM > 2
  BY FilesAssumption
<1>2. /\ x \in Seq(S) /\ Len(x) = FD_NUM - 1
      /\ \A k \in 1..(FD_NUM - 1) : x[k] = Counted(<<"open", Dot>>)
  <2>1. x = [k \in 1..(FD_NUM - 1) |-> Counted(<<"open", Dot>>)]
    BY <1>1 DEF All
  <2>2. Counted(<<"open", Dot>>) \in S
    OBVIOUS
  <2> HIDE DEF S, y, x
  <2> QED  BY <1>1, <2>1, <2>2
<1>3. /\ y \in Seq(S) /\ Len(y) = FD_NUM - 2
      /\ \A k \in 1..(FD_NUM - 2) : y[k] = Uncounted(<<"close", k + 1>>)
  <2>1. y = [k \in 1..(FD_NUM - 2) |-> Uncounted(<<"close", k + 1>>)]
    BY <1>1 DEF Fds
  <2>2. \A k \in 1..(FD_NUM - 2) : Uncounted(<<"close", k + 1>>) \in S
    BY <1>1
  <2> HIDE DEF S, y, x
  <2> QED  BY <1>1, <2>1, <2>2
<1> HIDE DEF x, y, S
<1>4. PICK z : z = x \o y
  BY Zenon
<1>5. /\ Len(z) = Len(x) + Len(y)
      /\ \A k \in 1..(Len(x) + Len(y)) : z[k] = IF k <= Len(x) THEN x[k] ELSE y[k - Len(x)]
  BY <1>2, <1>3, <1>4, ConcatProperties, Zenon
<1>6. /\ Len(z) = 2 * FD_NUM - 3
      /\ \A k \in 1..(2 * FD_NUM - 3) :
           z[k] = IF k <= FD_NUM - 1 THEN x[k] ELSE y[k - (FD_NUM - 1)]
  <2>1. Len(x) + Len(y) = 2 * FD_NUM - 3
    BY <1>1, <1>2, <1>3
  <2> QED  BY <1>2, <1>5, <2>1, Zenon
<1>7. \A k \in 1..(FD_NUM - 1) : z[k] = Counted(<<"open", Dot>>)
  <2>1. \A k \in 1..(FD_NUM - 1) : k \in 1..(2 * FD_NUM - 3) /\ k <= FD_NUM - 1
    BY <1>1
  <2> QED  BY <1>2, <1>6, <2>1, Zenon
<1>8. \A k \in FD_NUM..(2 * FD_NUM - 3) : z[k] = Uncounted(<<"close", k - FD_NUM + 2>>)
  <2>1. \A k \in FD_NUM..(2 * FD_NUM - 3) :
          /\ k \in 1..(2 * FD_NUM - 3) /\ ~(k <= FD_NUM - 1)
          /\ k - (FD_NUM - 1) \in 1..(FD_NUM - 2) /\ k - (FD_NUM - 1) + 1 = k - FD_NUM + 2
    BY <1>1
  <2>2. ASSUME NEW k \in FD_NUM..(2 * FD_NUM - 3)
        PROVE  z[k] = Uncounted(<<"close", k - (FD_NUM - 1) + 1>>)
    BY <1>3, <1>6, <2>1, Zenon
  <2> QED  BY <2>1, <2>2, Zenon
<1>9. Tests[3] = z /\ Len(Tests) = 8
  <2>1. err_open_lots = z
    BY <1>4, Zenon DEF err_open_lots, x, y
  <2> QED  BY <2>1 DEF Tests
<1> QED
  BY <1>6, <1>7, <1>8, <1>9, Zenon

LEMMA SyserrIs ==
  ASSUME ProgInv, my.prog = "syserr", my.at = "test"
  PROVE  SyserrGoes
<1> QED
  BY Zenon DEF ProgInv, SyserrInv

LEMMA SyserrMainKeeps ==
  ASSUME FilesInv, ProgInv, SyserrMain
  PROVE  ProgInv'
<1>1. /\ my.prog = "syserr" /\ my.at = "main" /\ Taken = {} /\ my.out = <<>> /\ my.status = 0
      /\ my.refused = 0 /\ my.arg \in 0..9 /\ UNCHANGED vars
  BY Zenon DEF SyserrMain, ProgInv, StartInv
<1>2. CASE my.arg > 8
  <2>1. Exit(0) /\ my.arg = 9
    BY <1>1, <1>2, ThirdTest DEF SyserrMain
  <2>2. /\ 9 # 0 /\ 9 \notin 1..8 /\ Len(<<>>) = 0
        /\ (CASE 9 = 0 -> 8 [] 9 \in 1..8 -> 1 [] OTHER -> 0) = 0
    OBVIOUS
  <2>3. my.prog = my'.prog /\ my.arg = my'.arg /\ my.out = my'.out /\ my'.status = 0 => EndRight'
    BY <1>1, <2>1, <2>2, ProgramsAssumption, Zenon DEF EndRight
  <2> QED  BY <1>1, <2>1, <2>3, Exits
<1>3. CASE ~(my.arg > 8)
  <2>1. PICK m : m = Max({1, my.arg})
    BY Zenon
  <2>2. my' = [my EXCEPT !.at = "test", !.test = m, !.call = 1]
    BY <1>3, <2>1, ThirdTest DEF SyserrMain
  <2>3. m \in 1..8 /\ my.arg \in {0, m} /\ (my.arg = 0 => m = 1)
    <3>1. \E k \in {1, my.arg} : \A j \in {1, my.arg} : k >= j
      BY <1>1
    <3>2. m \in {1, my.arg} /\ \A j \in {1, my.arg} : m >= j
      BY <2>1, <3>1, Zenon DEF Max
    <3> QED  BY <1>1, <1>3, <3>2
  <2>4. /\ my'.prog = my.prog /\ my'.arg = my.arg /\ my'.out = my.out /\ my'.status = my.status
        /\ my'.at = "test" /\ my'.test = m /\ my'.call = 1 /\ my'.refused = my.refused
        /\ DOMAIN my' = DOMAIN my
    BY <2>2, MyFields DEF ProgInv
  <2>5. SyserrGoes'
    <3>1. Taken' = {}
      BY <1>1 DEF Taken, vars
    <3>2. Len(Tests[m]) \in Nat
      BY <2>3, TestsFail, ThirdTest, LenProperties, FilesAssumption, SMTT(30)
    <3>3. 1 \in 1..(Len(Tests[m]) + 1) /\ ~(1 >= FD_NUM) /\ {} = 2..1 /\ 0 = 1 - 1
      BY <3>2, FilesAssumption
    <3>4. SyserrAt(m, 1, {}, 0)
      BY <3>3, Zenon DEF SyserrAt
    <3>5. <<>> \in Seq(BOOLEAN) /\ Len(<<>>) = Verdicts(my.arg, m)
      BY <1>1, <2>3 DEF Verdicts
    <3> QED  BY <1>1, <2>3, <2>4, <3>1, <3>4, <3>5, Zenon DEF SyserrGoes
  <2> QED  BY <1>1, <2>4, <2>5, Arrived, Zenon DEF Same, Lister
<1> QED
  BY <1>2, <1>3

(* Test 3 at a call that opens, at the one that finds nothing free, and at *)
(* one that closes.                                                        *)
LEMMA OpenOne ==
  ASSUME FilesInv, NEW c \in 1..(FD_NUM - 2), Taken = 2..c, syscall_open(Dot)
  PROVE  Taken' = 2..(c + 1) /\ ret'.val # -1
<1>1. c + 1 \in 2..(FD_NUM - 1) /\ c + 1 \notin Taken /\ c \in Nat /\ FD_NUM \in Nat
  BY FilesAssumption
<1>2. PICK i : i = read_dentry_by_name(Dot) /\ i # -1
  BY DotFound, Zenon
<1>3. PICK fd : OpenTo(fd, i)
  BY <1>1, <1>2, OpenGoes, Zenon
<1>4. /\ fd \in 2..(FD_NUM - 1) /\ fd \notin 2..c /\ fd <= c + 1 /\ ret'.val # -1
      /\ Taken' = 2..c \cup {fd}
  BY <1>1, <1>3, Zenon DEF OpenTo
<1>5. fd = c + 1 /\ 2..c \cup {c + 1} = 2..(c + 1)
  BY <1>1, <1>4
<1> QED
  BY <1>4, <1>5, Zenon

LEMMA OpenNone ==
  ASSUME FilesInv, Taken = 2..(FD_NUM - 1), syscall_open(Dot)
  PROVE  Taken' = 2..(FD_NUM - 1) /\ ret'.val = -1
<1>1. ret'.val = -1 /\ UNCHANGED <<pcb_fds, cur, got>>
  BY OpenGoes, Zenon
<1> QED
  BY <1>1, Zenon DEF Taken

LEMMA CloseOne ==
  ASSUME FilesInv, NEW k \in 2..(FD_NUM - 1), Taken = k..(FD_NUM - 1), syscall_close(k)
  PROVE  Taken' = (k + 1)..(FD_NUM - 1)
<1>1. k \in Taken /\ k..(FD_NUM - 1) \ {k} = (k + 1)..(FD_NUM - 1)
  BY FilesAssumption
<1> QED
  BY <1>1, CloseGoes, Zenon

(* The descriptors and the count after a call. *)
LEMMA CallOfThird ==
  ASSUME FilesInv, NEW c \in 1..(2 * FD_NUM - 3), Make(Tests[3][c]),
         c < FD_NUM => Taken = 2..c,
         c >= FD_NUM => Taken = (2 + (c - FD_NUM))..(FD_NUM - 1)
  PROVE  /\ c + 1 < FD_NUM => Taken' = 2..(c + 1) /\ ret'.val # -1
         /\ c + 1 >= FD_NUM => Taken' = (2 + ((c + 1) - FD_NUM))..(FD_NUM - 1)
         /\ c = FD_NUM - 1 => ret'.val = -1
         /\ c < FD_NUM => Tests[3][c].counted
         /\ c >= FD_NUM => ~ Tests[3][c].counted
<1>1. FD_NUM \in Nat /\ FD_NUM > 3 /\ c \in Nat
  BY FilesAssumption, ImageAssumption
<1>2. CASE c < FD_NUM
  <2>1. c \in 1..(FD_NUM - 1)
    BY <1>1, <1>2
  <2>2. Tests[3][c] = Counted(<<"open", Dot>>)
    BY <2>1, ThirdTest, Zenon
  <2>3. syscall_open(Dot) /\ Tests[3][c].counted
    BY <2>2, CallIs, Zenon DEF Make
  <2>4. CASE c < FD_NUM - 1
    <3>1. c \in 1..(FD_NUM - 2) /\ ~(c + 1 >= FD_NUM) /\ c # FD_NUM - 1 /\ ~(c >= FD_NUM)
      BY <1>1, <2>4
    <3> QED  BY <1>2, <2>3, <3>1, OpenOne, Zenon
  <2>5. CASE c = FD_NUM - 1
    <3>1. /\ 2 + ((c + 1) - FD_NUM) = 2 /\ 2..c = 2..(FD_NUM - 1)
          /\ ~(c + 1 < FD_NUM) /\ ~(c >= FD_NUM)
      BY <1>1, <2>5
    <3>2. Taken' = 2..(FD_NUM - 1) /\ ret'.val = -1
      BY <1>2, <2>3, <3>1, OpenNone, Zenon
    <3> QED  BY <2>3, <3>1, <3>2, Zenon
  <2> QED  BY <1>1, <2>1, <2>4, <2>5
<1>3. CASE c >= FD_NUM
  <2>1. PICK k : k = c - FD_NUM + 2
    BY Zenon
  <2>2. /\ k \in 2..(FD_NUM - 1) /\ k = 2 + (c - FD_NUM) /\ k + 1 = 2 + ((c + 1) - FD_NUM)
        /\ ~(c + 1 < FD_NUM) /\ ~(c < FD_NUM) /\ c # FD_NUM - 1
        /\ c \in FD_NUM..(2 * FD_NUM - 3)
    BY <1>1, <1>3, <2>1
  <2>3. Tests[3][c] = Uncounted(<<"close", k>>)
    BY <2>1, <2>2, ThirdTest, Zenon
  <2>4. syscall_close(k) /\ ~ Tests[3][c].counted
    BY <2>3, CallIs, Zenon DEF Make
  <2>5. Taken' = (k + 1)..(FD_NUM - 1)
    BY <1>3, <2>2, <2>4, CloseOne, Zenon
  <2> QED  BY <2>2, <2>4, <2>5, Zenon
<1> QED
  BY <1>1, <1>2, <1>3

LEMMA SyserrCallKeeps ==
  ASSUME FilesInv, ProgInv, SyserrCall
  PROVE  ProgInv'
<1>1. my.prog = "syserr" /\ my.at = "test" /\ SyserrGoes
  BY SyserrIs, Zenon DEF SyserrCall
<1>2. PICK t, c, r : t = my.test /\ c = my.call /\ r = my.refused
  BY Zenon
<1>3. PICK a : a = Tests[t][c]
  BY Zenon
<1>4. PICK s : s = IF a.counted /\ ret'.val = -1 THEN r + 1 ELSE r
  BY Zenon
<1>5. /\ Make(a) /\ c <= Len(Tests[t])
      /\ my' = [my EXCEPT !.call = c + 1, !.refused = s]
  BY <1>2, <1>3, <1>4 DEF SyserrCall
<1>6. /\ t \in 1..8 /\ c \in 1..(Len(Tests[t]) + 1)
      /\ t # 3 => Taken = {} /\ r = c - 1
      /\ t = 3 /\ c < FD_NUM => Taken = 2..c /\ r = 0
      /\ t = 3 /\ c >= FD_NUM => Taken = (2 + (c - FD_NUM))..(FD_NUM - 1) /\ r = 1
  BY <1>1, <1>2, Zenon DEF SyserrGoes, SyserrAt
<1>7. Len(Tests[t]) \in Nat /\ FD_NUM \in Nat
  BY <1>6, TestsFail, ThirdTest, LenProperties, FilesAssumption
<1>8. c \in 1..Len(Tests[t]) /\ c + 1 \in 1..(Len(Tests[t]) + 1) /\ c \in Nat /\ (c + 1) - 1 = c
  BY <1>5, <1>6, <1>7
<1>9. ASSUME t # 3 PROVE Taken' = {} /\ s = (c + 1) - 1
  <2>1. Tests[t] \in Seq(Failing)
    BY <1>6, <1>9, TestsFail, Zenon
  <2>2. a \in Failing
    BY <1>3, <1>8, <2>1, ElementOfSeq, Zenon
  <2>3. a.counted /\ ret'.val = -1 /\ UNCHANGED <<pcb_fds, cur, got>>
    BY <1>5, <1>6, <1>9, <2>2, Refused, Zenon
  <2>4. Taken' = {}
    BY <1>6, <1>9, <2>3, Zenon DEF Taken
  <2> QED  BY <1>4, <1>6, <1>8, <1>9, <2>3, <2>4
<1>10. ASSUME t = 3
       PROVE  /\ c + 1 < FD_NUM => Taken' = 2..(c + 1) /\ s = 0
              /\ c + 1 >= FD_NUM => Taken' = (2 + ((c + 1) - FD_NUM))..(FD_NUM - 1) /\ s = 1
  <2>1. c \in 1..(2 * FD_NUM - 3) /\ Make(Tests[3][c]) /\ a = Tests[3][c]
    BY <1>3, <1>5, <1>8, <1>10, ThirdTest, Zenon
  <2>2. /\ c + 1 < FD_NUM => Taken' = 2..(c + 1) /\ ret'.val # -1
        /\ c + 1 >= FD_NUM => Taken' = (2 + ((c + 1) - FD_NUM))..(FD_NUM - 1)
        /\ c = FD_NUM - 1 => ret'.val = -1
        /\ c < FD_NUM => a.counted
        /\ c >= FD_NUM => ~ a.counted
    BY <1>6, <1>10, <2>1, CallOfThird, Zenon
  <2>3. /\ c + 1 < FD_NUM => c < FD_NUM
        /\ c + 1 >= FD_NUM => c = FD_NUM - 1 \/ c >= FD_NUM
        /\ c = FD_NUM - 1 => c < FD_NUM
        /\ 1 = 0 + 1
    BY <1>7, <1>8
  <2> QED  BY <1>4, <1>6, <1>10, <2>2, <2>3, Zenon
<1>11. /\ my'.prog = my.prog /\ my'.arg = my.arg /\ my'.out = my.out /\ my'.status = my.status
       /\ my'.at = my.at /\ my'.test = my.test /\ my'.call = c + 1 /\ my'.refused = s
       /\ DOMAIN my' = DOMAIN my /\ my'.test = t
  BY <1>2, <1>5, MyFields DEF ProgInv
<1>12. SyserrGoes'
  <2>1. SyserrAt(t, c + 1, Taken', s)
    BY <1>8, <1>9, <1>10, Zenon DEF SyserrAt
  <2> QED  BY <1>1, <1>11, <2>1, Zenon DEF SyserrGoes
<1> QED
  BY <1>1, <1>11, <1>12, Arrived, Zenon DEF Same, Lister

LEMMA SyserrVerdictKeeps ==
  ASSUME FilesInv, ProgInv, SyserrVerdict
  PROVE  ProgInv'
<1>1. /\ my.prog = "syserr" /\ my.at = "test" /\ SyserrGoes /\ UNCHANGED vars
  BY SyserrIs, Zenon DEF SyserrVerdict
<1>2. PICK t, o : t = my.test /\ o = my.out
  BY Zenon
<1>3. /\ t \in 1..8 /\ my.arg \in {0, t} /\ my.call \in 1..(Len(Tests[t]) + 1)
      /\ o \in Seq(BOOLEAN) /\ Len(o) = IF my.arg = 0 THEN t - 1 ELSE 0
      /\ my.status = 0
      /\ t # 3 => Taken = {} /\ my.refused = my.call - 1
      /\ t = 3 /\ my.call >= FD_NUM =>
           Taken = (2 + (my.call - FD_NUM))..(FD_NUM - 1) /\ my.refused = 1
  BY <1>1, <1>2, Zenon DEF SyserrGoes, SyserrAt, Verdicts
<1>4. Len(Tests[t]) \in Nat /\ FD_NUM \in Nat /\ FD_NUM > 3 /\ (t = 3 => Len(Tests[t]) = 2 * FD_NUM - 3)
  BY <1>3, TestsFail, ThirdTest, LenProperties, FilesAssumption, ImageAssumption
<1>5. my.call = Len(Tests[t]) + 1
  BY <1>2, <1>3, <1>4 DEF SyserrVerdict
<1>6. my.refused = ToRefuse(t) /\ Taken = {}
  <2>1. CASE t # 3
    BY <1>3, <1>4, <1>5, <2>1 DEF ToRefuse
  <2>2. CASE t = 3
    <3>1. /\ my.call >= FD_NUM /\ 2 + (my.call - FD_NUM) = FD_NUM
          /\ FD_NUM..(FD_NUM - 1) = {}
      BY <1>4, <1>5, <2>2
    <3> QED  BY <1>3, <2>2, <3>1, Zenon DEF ToRefuse
  <2> QED  BY <2>1, <2>2
<1>7. PICK p : p = Append(o, TRUE)
  BY Zenon
<1>8. p \in Seq(BOOLEAN) /\ Len(p) = Len(o) + 1
  BY <1>3, <1>7
<1>9. CASE my.arg # 0 \/ t = 8
  <2>1. my' = [my EXCEPT !.out = p, !.status = 0, !.refused = 0, !.at = "exit",
                         !.test = t, !.call = 1]
    BY <1>2, <1>3, <1>6, <1>7, <1>9, ThirdTest, Zenon DEF SyserrVerdict
  <2>2. /\ my'.prog = my.prog /\ my'.arg = my.arg /\ my'.out = p /\ my'.status = 0
        /\ my'.at = "exit" /\ DOMAIN my' = DOMAIN my
    BY <2>1, MyFields DEF ProgInv
  <2>3. /\ Len(p) = CASE my.arg = 0 -> 8 [] my.arg \in 1..8 -> 1 [] OTHER -> 0
        /\ my.arg \in 0..9
    BY <1>3, <1>8, <1>9
  <2>4. my.arg # NoArg
    BY <2>3, ProgramsAssumption, Zenon
  <2>5. EndRight'
    BY <1>1, <2>2, <2>3, <2>4, Zenon DEF EndRight
  <2> QED  BY <1>1, <2>2, <2>5, Arrived, Zenon DEF Same, Lister
<1>10. CASE ~(my.arg # 0 \/ t = 8)
  <2>1. my' = [my EXCEPT !.out = p, !.status = 0, !.refused = 0, !.at = "test",
                         !.test = t + 1, !.call = 1]
    BY <1>2, <1>3, <1>6, <1>7, <1>10, ThirdTest, Zenon DEF SyserrVerdict
  <2>2. /\ my'.prog = my.prog /\ my'.arg = 0 /\ my'.arg = my.arg /\ my'.out = p
        /\ my'.status = 0 /\ my'.refused = 0 /\ my'.test = t + 1 /\ my'.call = 1
        /\ my'.at = "test" /\ DOMAIN my' = DOMAIN my
    BY <1>10, <2>1, MyFields DEF ProgInv
  <2>3. t + 1 \in 1..8 /\ Len(p) = (t + 1) - 1
    BY <1>3, <1>8, <1>10
  <2>4. 1 \in 1..(Len(Tests[t + 1]) + 1)
    BY <2>3, TestsFail, ThirdTest, LenProperties, FilesAssumption, SMTT(30)
  <2>5. Taken' = {} /\ ~(1 >= FD_NUM) /\ {} = 2..1 /\ 0 = 1 - 1
    BY <1>1, <1>4, <1>6 DEF Taken, vars
  <2>6. SyserrGoes'
    <3>1. SyserrAt(t + 1, 1, {}, 0)
      BY <2>4, <2>5, Zenon DEF SyserrAt
    <3>2. Len(p) = Verdicts(0, t + 1)
      BY <2>3 DEF Verdicts
    <3> QED  BY <1>8, <2>2, <2>3, <2>5, <3>1, <3>2, Zenon DEF SyserrGoes
  <2> QED  BY <1>1, <2>2, <2>6, Arrived, Zenon DEF Same, Lister
<1> QED
  BY <1>9, <1>10

-----------------------------------------------------------------------------

LEMMA StutterKeeps ==
  ASSUME ProgInv, UNCHANGED progVars
  PROVE  ProgInv'
<1>1. my' = my /\ pcb_fds' = pcb_fds /\ cur' = cur
  BY DEF progVars, vars
<1>2. Taken' = Taken /\ \A fd : HasRead(fd)' = HasRead(fd)
  BY <1>1, Zenon DEF Taken, HasRead
<1>3. \A fd, i, pos : OpenedAt(fd, i, pos) => OpenedAt(fd, i, pos)'
  BY <1>1, Zenon DEF OpenedAt
<1>4. ListerInv'
  <2>1. Wanted' = Wanted /\ Lister' = Lister /\ \A x : Written(x)' = Written(x)
    BY <1>1, Zenon DEF Wanted, Lister, Written
  <2>2. Pending => Pending'
    BY <1>1, <1>2, <2>1, Zenon DEF Pending
  <2> QED  BY <1>1, <1>2, <1>3, <2>1, <2>2, Zenon DEF ProgInv, ListerInv, ListerGoes
<1>5. GrepInv'
  <2>1. \A pos : GrepAt(pos) => GrepAt(pos)'
    BY <1>1, <1>2, <1>3, Zenon DEF GrepAt
  <2> QED  BY <1>1, <1>3, <2>1, Zenon DEF ProgInv, GrepInv, GrepGoes
<1>6. SyserrInv'
  BY <1>1, <1>2, Zenon DEF ProgInv, SyserrInv, SyserrGoes
<1>7. StartInv' /\ (DOMAIN my = DOMAIN Idle)'
  BY <1>1, <1>2, Zenon DEF ProgInv, StartInv, Idle
<1>8. OutputRight'
  BY <1>1, Zenon DEF ProgInv, OutputRight
<1> QED
  BY <1>4, <1>5, <1>6, <1>7, <1>8 DEF ProgInv

LEMMA ProgInvPreserved ==
  ASSUME FilesInv, ProgInv, [ProgNext]_progVars
  PROVE  ProgInv'
<1>1. CASE AnyProgram
  BY <1>1, Waiting, Zenon DEF AnyProgram, ProgInv
<1>2. CASE Start
  BY <1>2, StartKeeps
<1>3. CASE Halt
  BY <1>3, Waiting DEF Halt, Idle
<1>4. CASE ListerOpen \/ ListerRead \/ ListerWrite
  BY <1>4, ListerOpenKeeps, ListerReadKeeps, ListerWriteKeeps
<1>5. CASE Grep
  BY <1>5, GrepOpenKeeps, GrepEntryKeeps, FileKeeps, Zenon DEF Grep
<1>6. CASE SyserrMain \/ SyserrCall \/ SyserrVerdict
  BY <1>6, SyserrMainKeeps, SyserrCallKeeps, SyserrVerdictKeeps
<1>7. CASE GetargsFails
  BY <1>7, GetargsKeeps
<1>8. CASE UNCHANGED progVars
  BY <1>8, StutterKeeps
<1> QED
  BY <1>1, <1>2, <1>3, <1>4, <1>5, <1>6, <1>7, <1>8, Zenon DEF ProgNext

LEMMA InitPrograms == ProgInit => ProgInv
<1>1. ProgInit => my.at = "idle" /\ DOMAIN my = DOMAIN Idle
  BY DEF ProgInit, Idle
<1> QED
  BY <1>1, Zenon DEF ProgInv, StartInv, ListerInv, GrepInv, SyserrInv, OutputRight

(***************************************************************************)
(* Whatever image, block and buffer size and number of descriptors: when a *)
(* program exits, cat has written all of its file and ls every name, grep  *)
(* has read every file it is to search to its end, and each test of syserr *)
(* that ran has passed; cat and grep without an argument have done nothing *)
(* and return 3.                                                           *)
(***************************************************************************)
THEOREM ProgramsEndRight == ProgSpec => []OutputRight
<1>1. ProgInit => ProgInv
  BY InitPrograms
<1>2. FilesInv /\ ProgInv /\ [ProgNext]_progVars => ProgInv'
  BY ProgInvPreserved
<1>3. ProgInv => OutputRight
  BY DEF ProgInv
<1> QED
  BY <1>1, <1>2, <1>3, FilesInvAlways, PTL DEF ProgSpec
=============================================================================
