--------------------------- MODULE KeyboardProofs ---------------------------
(***************************************************************************)
(* The line buffers and terminal_read, for any number of terminals, any    *)
(* size of buffer, any characters and any lengths asked for; and the       *)
(* interrupts that bring the keys, for any depth of nesting.               *)
(***************************************************************************)
EXTENDS Keyboard, Interrupts, SequenceTheorems, TLAPS

(* Where the line of a terminal stands. *)
Pos(t) == IF t = viewing THEN buf_pos ELSE term_pos[t]

(* Up to there the buffer holds what was typed, which has no Newline. *)
LinesTyped == \A t \in Tid : \A i \in 0..(Pos(t) - 1) : term_buf[t][i] \in Char

(* A line that is owed ends with its only Newline, and what is still to be *)
(* copied of it lies in its terminal's buffer.                             *)
LineKept(t) ==
  /\ Len(owed[t]) <= KBD_BUF_SIZE
  /\ owed[t][Len(owed[t])] = Newline
  /\ \A i \in 1..(Len(owed[t]) - 1) : owed[t][i] \in Char
  /\ \A i \in (Copied(t) + 1)..Len(owed[t]) : term_buf[t][i - 1] = owed[t][i]

(* What a reader has copied of a line it is owed is the beginning of it. *)
CopiedOf(t) ==
  /\ Len(reader[t].out) <= reader[t].nbytes
  /\ Len(reader[t].out) <= Len(owed[t])
  /\ \A i \in 1..Len(reader[t].out) : reader[t].out[i] = owed[t][i]

ReadersRight ==
  \A t \in Tid :
    /\ reader[t].at = "wait" => reader[t].out = <<>>
    /\ reader[t].at = "copy" => ready[t]
    /\ owed[t] # <<>> => LineKept(t)
    /\ owed[t] # <<>> /\ reader[t].at = "copy" => CopiedOf(t)

IInv ==
  /\ TypeOK
  /\ kbd_buf = viewing
  /\ LinesTyped
  /\ ReadersRight

-----------------------------------------------------------------------------
(* The beginning of a buffer is a sequence. *)
LEMMA PrefixSeq ==
  ASSUME NEW S, NEW t \in Tid, NEW n \in Nat,
         \A i \in 0..(n - 1) : term_buf[t][i] \in S
  PROVE  /\ Prefix(t, n) \in Seq(S)
         /\ Len(Prefix(t, n)) = n
         /\ \A i \in 1..n : Prefix(t, n)[i] = term_buf[t][i - 1]
<1>1. Prefix(t, n) \in [1..n -> S]
  BY DEF Prefix
<1> QED
  BY <1>1 DEF Prefix

(* At boot the buffers are empty and nobody reads. *)
LEMMA InitIInv == Init => IInv
<1> SUFFICES ASSUME Init PROVE IInv
  OBVIOUS
<1>1. 0 \in Tid /\ 0 \in Index
  BY KeyboardAssumption DEF Tid, Index
<1>2. TypeOK
  BY <1>1 DEF Init, TypeOK, Idle
<1>3. kbd_buf = viewing /\ LinesTyped
  BY <1>1 DEF Init, LinesTyped, Pos
<1>4. ReadersRight
  BY DEF Init, ReadersRight, Idle
<1> QED
  BY <1>2, <1>3, <1>4 DEF IInv

(* A key is stored in the viewed terminal's buffer, or nothing happens. *)
LEMMA StoreCases ==
  ASSUME IInv, NEW c \in Key, StoreKey(c)
  PROVE  \/ /\ c = Newline
            /\ term_buf' = [term_buf EXCEPT ![viewing][buf_pos] = c]
            /\ buf_pos' = 0
            /\ ready' = [ready EXCEPT ![viewing] = TRUE]
         \/ /\ c \in Char /\ buf_pos < KBD_BUF_SIZE - 1
            /\ term_buf' = [term_buf EXCEPT ![viewing][buf_pos] = c]
            /\ buf_pos' = buf_pos + 1
            /\ ready' = ready
         \/ c \in Char /\ UNCHANGED <<term_buf, buf_pos, ready>>
  BY KeyboardAssumption DEF IInv, TypeOK, StoreKey, Key, Index

(* The line that Enter ends. *)
LEMMA LineEntered ==
  ASSUME IInv
  PROVE  LET w == Append(Prefix(viewing, buf_pos), Newline)
         IN  /\ w \in Seq(Key)
             /\ Len(w) = buf_pos + 1
             /\ w[buf_pos + 1] = Newline
             /\ \A i \in 1..buf_pos : w[i] \in Char /\ w[i] = term_buf[viewing][i - 1]
<1>1. viewing \in Tid /\ buf_pos \in Nat
  BY DEF IInv, TypeOK, Index
<1>2. \A i \in 0..(buf_pos - 1) : term_buf[viewing][i] \in Char
  BY <1>1 DEF IInv, LinesTyped, Pos
<1>3. /\ Prefix(viewing, buf_pos) \in Seq(Char)
      /\ Len(Prefix(viewing, buf_pos)) = buf_pos
      /\ \A i \in 1..buf_pos : Prefix(viewing, buf_pos)[i] = term_buf[viewing][i - 1]
  BY <1>1, <1>2, PrefixSeq
<1>4. Prefix(viewing, buf_pos) \in Seq(Key) /\ Newline \in Key
  BY <1>3 DEF Key
<1> QED
  BY <1>1, <1>2, <1>3, <1>4, AppendProperties

(* A key keeps the invariant: the other terminals' buffers are untouched,  *)
(* and the viewed one is owed a new line, none, or the line of which the   *)
(* key has taken a place that was copied.                                  *)
LEMMA PressKeyKeeps ==
  ASSUME IInv, NEW c \in Key, PressKey(c)
  PROVE  IInv'
<1>1. /\ viewing \in Tid /\ buf_pos \in Index /\ buf_pos \in Nat
      /\ term_buf \in [Tid -> [Index -> Key \cup {Nul}]] /\ ready \in [Tid -> BOOLEAN]
      /\ reader \in [Tid -> [at : {"user", "wait", "copy"}, nbytes : NBytes \cup {0},
                             out : Seq(Key \cup {Nul})]]
      /\ owed \in [Tid -> Seq(Key)]
  BY DEF IInv, TypeOK, Index
<1>2. UNCHANGED <<term_pos, kbd_buf, viewing, running, reader>>
  BY DEF PressKey
<1> DEFINE new == Append(Prefix(viewing, buf_pos), Newline)
<1>3. owed' = [owed EXCEPT ![viewing] =
                 IF c = Newline /\ reader[viewing].at # "copy" THEN new
                 ELSE IF buf_pos < Copied(viewing) \/ UNCHANGED term_buf THEN owed[viewing]
                 ELSE <<>>]
  BY Zenon DEF PressKey
<1>4. /\ new \in Seq(Key) /\ Len(new) = buf_pos + 1 /\ new[buf_pos + 1] = Newline
      /\ \A i \in 1..buf_pos : new[i] \in Char /\ new[i] = term_buf[viewing][i - 1]
  BY LineEntered, Zenon
<1> HIDE DEF new
<1>5. \/ /\ c = Newline
         /\ term_buf' = [term_buf EXCEPT ![viewing][buf_pos] = c]
         /\ buf_pos' = 0
         /\ ready' = [ready EXCEPT ![viewing] = TRUE]
      \/ /\ c \in Char /\ buf_pos < KBD_BUF_SIZE - 1
         /\ term_buf' = [term_buf EXCEPT ![viewing][buf_pos] = c]
         /\ buf_pos' = buf_pos + 1
         /\ ready' = ready
      \/ c \in Char /\ UNCHANGED <<term_buf, buf_pos, ready>>
  BY StoreCases DEF PressKey
<1>6. /\ \A t \in Tid \ {viewing} : term_buf'[t] = term_buf[t]
      /\ \A i \in 0..(buf_pos - 1) : term_buf'[viewing][i] = term_buf[viewing][i]
      /\ c = Newline => term_buf'[viewing][buf_pos] = Newline
  BY <1>1, <1>5, KeyboardAssumption DEF Index
<1>7. TypeOK'
  <2>1. term_buf' \in [Tid -> [Index -> Key \cup {Nul}]]
    <3>1. CASE term_buf' = term_buf
      BY <1>1, <3>1
    <3>2. CASE term_buf' = [term_buf EXCEPT ![viewing][buf_pos] = c]
      <4>1. [term_buf[viewing] EXCEPT ![buf_pos] = c] \in [Index -> Key \cup {Nul}]
        BY <1>1
      <4> QED  BY <1>1, <3>2, <4>1
    <3> QED  BY <1>5, <3>1, <3>2
  <2>2. buf_pos' \in Index
    BY <1>1, <1>5, KeyboardAssumption DEF Index
  <2>3. ready' \in [Tid -> BOOLEAN]
    BY <1>1, <1>5, Zenon
  <2>4. owed' \in [Tid -> Seq(Key)]
    BY <1>1, <1>3, <1>4
  <2> QED
    BY <1>2, <2>1, <2>2, <2>3, <2>4 DEF IInv, TypeOK
<1>8. LinesTyped'
  <2> SUFFICES ASSUME NEW t \in Tid, NEW i \in 0..(Pos(t)' - 1) PROVE term_buf'[t][i] \in Char
    BY DEF LinesTyped
  <2>1. CASE t # viewing
    BY <1>2, <1>6, <2>1 DEF IInv, LinesTyped, Pos
  <2>2. CASE t = viewing
    <3>1. Pos(t)' = buf_pos' /\ \A j \in 0..(buf_pos - 1) : term_buf[t][j] \in Char
      BY <1>2, <2>2 DEF IInv, LinesTyped, Pos
    <3>2. CASE buf_pos' = buf_pos + 1 /\ term_buf' = [term_buf EXCEPT ![viewing][buf_pos] = c] /\ c \in Char
      BY <1>1, <1>6, <2>2, <3>1, <3>2
    <3>3. CASE buf_pos' = 0 \/ UNCHANGED <<term_buf, buf_pos>>
      BY <1>1, <3>1, <3>3
    <3> QED  BY <1>5, <3>2, <3>3
  <2> QED  BY <2>1, <2>2
<1>9. ReadersRight'
  <2> SUFFICES ASSUME NEW t \in Tid
               PROVE  /\ reader'[t].at = "wait" => reader'[t].out = <<>>
                      /\ reader'[t].at = "copy" => ready'[t]
                      /\ owed'[t] # <<>> => LineKept(t)'
                      /\ owed'[t] # <<>> /\ reader'[t].at = "copy" => CopiedOf(t)'
    BY DEF ReadersRight
  <2>1. /\ reader[t].at = "wait" => reader[t].out = <<>>
        /\ reader[t].at = "copy" => ready[t]
        /\ owed[t] # <<>> => LineKept(t)
        /\ owed[t] # <<>> /\ reader[t].at = "copy" => CopiedOf(t)
    BY DEF IInv, ReadersRight
  <2>2. ready[t] => ready'[t]
    BY <1>1, <1>5
  <2>3. CASE t # viewing
    <3>1. owed'[t] = owed[t] /\ term_buf'[t] = term_buf[t]
      BY <1>1, <1>3, <1>6, <2>3
    <3> QED  BY <1>2, <2>1, <2>2, <3>1 DEF LineKept, CopiedOf, Copied
  <2>4. CASE t = viewing /\ ~(c = Newline /\ reader[viewing].at # "copy")
    <3>1. CASE ~(buf_pos < Copied(viewing) \/ UNCHANGED term_buf)
      <4>1. owed'[t] = <<>>
        BY <1>1, <1>3, <2>4, <3>1
      <4> QED  BY <1>2, <2>1, <2>2, <4>1
    <3>2. CASE buf_pos < Copied(viewing) \/ UNCHANGED term_buf
      <4>1. owed'[t] = owed[t] /\ Copied(t)' = Copied(t) /\ Copied(t) \in Nat
        BY <1>1, <1>2, <1>3, <2>4, <3>2 DEF Copied
      <4>2. \A i \in (Copied(t) + 1)..Len(owed[t]) : term_buf'[t][i - 1] = term_buf[t][i - 1]
        <5>1. CASE UNCHANGED term_buf
          BY <5>1
        <5>2. CASE buf_pos < Copied(viewing) /\ term_buf' = [term_buf EXCEPT ![viewing][buf_pos] = c]
          BY <1>1, <2>4, <4>1, <5>2
        <5> QED  BY <1>5, <3>2, <5>1, <5>2
      <4>3. LineKept(t) => LineKept(t)'
        BY <4>1, <4>2 DEF LineKept
      <4> QED  BY <1>2, <2>1, <2>2, <4>1, <4>3 DEF CopiedOf
    <3> QED  BY <3>1, <3>2
  <2>5. CASE t = viewing /\ c = Newline /\ reader[viewing].at # "copy"
    <3>1. owed'[t] = new
      BY <1>1, <1>3, <2>5
    <3>2. LineKept(t)'
      <4>1. Len(owed'[t]) = buf_pos + 1 /\ buf_pos + 1 <= KBD_BUF_SIZE
        BY <1>1, <1>4, <3>1, KeyboardAssumption DEF Index
      <4>2. \A i \in 1..(buf_pos + 1) : term_buf'[t][i - 1] = new[i]
        <5> TAKE i \in 1..(buf_pos + 1)
        <5>1. CASE i = buf_pos + 1
          BY <1>1, <1>4, <1>6, <2>5, <5>1
        <5>2. CASE i \in 1..buf_pos
          <6>1. i - 1 \in 0..(buf_pos - 1)
            BY <1>1, <5>2
          <6> QED  BY <1>4, <1>6, <2>5, <5>2, <6>1
        <5> QED  BY <1>1, <5>1, <5>2
      <4>3. Copied(t)' = 0
        BY <1>2, <2>5 DEF Copied
      <4> QED  BY <1>1, <1>4, <3>1, <4>1, <4>2, <4>3 DEF LineKept
    <3> QED  BY <1>2, <2>1, <2>5, <3>2
  <2> QED  BY <2>3, <2>4, <2>5
<1> QED
  BY <1>2, <1>7, <1>8, <1>9 DEF IInv

(* Taking back a key shortens the line. *)
LEMMA BackspaceKeeps == ASSUME IInv, Backspace PROVE IInv'
<1>0. buf_pos \in Int /\ buf_pos' = buf_pos - 1
  BY DEF IInv, TypeOK, Backspace, Index
<1>1. /\ buf_pos' \in Index
      /\ UNCHANGED <<term_buf, term_pos, ready, kbd_buf, viewing, running, reader, owed>>
  BY KeyboardAssumption DEF IInv, TypeOK, Backspace, Index
<1>2. TypeOK'
  BY <1>1 DEF IInv, TypeOK
<1>3. LinesTyped'
  <2> SUFFICES ASSUME NEW t \in Tid, NEW i \in 0..(Pos(t)' - 1) PROVE term_buf[t][i] \in Char
    BY <1>1 DEF LinesTyped
  <2>1. CASE t # viewing
    BY <1>1, <2>1 DEF IInv, LinesTyped, Pos
  <2>2. CASE t = viewing
    <3>1. Pos(t)' = buf_pos' /\ Pos(t) = buf_pos
      BY <1>1, <2>2 DEF Pos
    <3>2. i \in 0..(buf_pos' - 1)
      BY <3>1
    <3>3. i \in 0..(buf_pos - 1)
      BY <1>0, <3>2
    <3> QED  BY <3>1, <3>3 DEF IInv, LinesTyped
  <2> QED  BY <2>1, <2>2
<1>4. ReadersRight'
  BY <1>1 DEF IInv, ReadersRight, LineKept, CopiedOf, Copied
<1> QED
  BY <1>1, <1>2, <1>3, <1>4 DEF IInv

(* A switch leaves every line where it stands. *)
LEMMA SwitchPositions ==
  ASSUME IInv, NEW target \in Tid, switch_terminal(target)
  PROVE  \A t \in Tid : Pos(t)' = Pos(t)
  BY DEF IInv, TypeOK, switch_terminal, Pos

LEMMA SwitchKeeps ==
  ASSUME IInv, NEW target \in Tid, switch_terminal(target)
  PROVE  IInv'
<1>1. UNCHANGED <<term_buf, ready, running, reader, owed>> /\ kbd_buf' = viewing' /\ viewing' = target
  BY DEF switch_terminal
<1>2. TypeOK'
  BY <1>1 DEF IInv, TypeOK, switch_terminal
<1>3. LinesTyped'
  BY <1>1, SwitchPositions DEF IInv, LinesTyped
<1>4. ReadersRight'
  BY <1>1 DEF IInv, ReadersRight, LineKept, CopiedOf, Copied
<1> QED
  BY <1>1, <1>2, <1>3, <1>4 DEF IInv

-----------------------------------------------------------------------------
(* The steps of terminal_read. *)
ReaderType == [at : {"user", "wait", "copy"}, nbytes : NBytes \cup {0}, out : Seq(Key \cup {Nul})]

(* A step that changes only the running terminal's read and what it is     *)
(* owed keeps the invariant if it leaves that read right.                  *)
LEMMA ReadStepKeeps ==
  ASSUME IInv,
         UNCHANGED <<term_buf, term_pos, kbd_buf, buf_pos, viewing, running>>,
         NEW r \in ReaderType, reader' = [reader EXCEPT ![running] = r],
         NEW w \in Seq(Key), owed' = [owed EXCEPT ![running] = w],
         ready' \in [Tid -> BOOLEAN],
         \A t \in Tid \ {running} : ready'[t] = ready[t],
         r.at = "wait" => r.out = <<>>,
         r.at = "copy" => ready'[running],
         w \in {<<>>, owed[running]},
         w # <<>> => \A i \in ((IF r.at = "copy" THEN Len(r.out) ELSE 0) + 1)..Len(w) :
                       term_buf[running][i - 1] = w[i],
         w # <<>> /\ r.at = "copy" =>
           Len(r.out) <= r.nbytes /\ Len(r.out) <= Len(w) /\ \A i \in 1..Len(r.out) : r.out[i] = w[i]
  PROVE  IInv'
<1>1. running \in Tid /\ reader \in [Tid -> ReaderType] /\ owed \in [Tid -> Seq(Key)]
  BY DEF IInv, TypeOK, ReaderType
<1>2. reader' \in [Tid -> ReaderType] /\ owed' \in [Tid -> Seq(Key)]
  BY <1>1
<1>3. TypeOK'
  BY <1>2 DEF IInv, TypeOK, ReaderType
<1>4. LinesTyped'
  BY DEF IInv, LinesTyped, Pos
<1>5. ReadersRight'
  <2> SUFFICES ASSUME NEW t \in Tid
               PROVE  /\ reader'[t].at = "wait" => reader'[t].out = <<>>
                      /\ reader'[t].at = "copy" => ready'[t]
                      /\ owed'[t] # <<>> => LineKept(t)'
                      /\ owed'[t] # <<>> /\ reader'[t].at = "copy" => CopiedOf(t)'
    BY DEF ReadersRight
  <2>1. /\ reader[t].at = "wait" => reader[t].out = <<>>
        /\ reader[t].at = "copy" => ready[t]
        /\ owed[t] # <<>> => LineKept(t)
        /\ owed[t] # <<>> /\ reader[t].at = "copy" => CopiedOf(t)
    BY DEF IInv, ReadersRight
  <2>2. CASE t # running
    <3>1. reader'[t] = reader[t] /\ owed'[t] = owed[t] /\ ready'[t] = ready[t]
      BY <1>1, <2>2
    <3> QED  BY <2>1, <3>1 DEF LineKept, CopiedOf, Copied
  <2>3. CASE t = running
    <3>1. reader'[t] = r /\ owed'[t] = w
      BY <1>1, <2>3
    <3>2. w # <<>> => LineKept(t)'
      BY <2>1, <2>3, <3>1 DEF LineKept, Copied
    <3> QED  BY <2>3, <3>1, <3>2 DEF CopiedOf
  <2> QED  BY <2>2, <2>3
<1> QED
  BY <1>3, <1>4, <1>5 DEF IInv

LEMMA RunningRead ==
  ASSUME IInv
  PROVE  /\ running \in Tid
         /\ reader \in [Tid -> ReaderType] /\ reader[running] \in ReaderType
         /\ owed \in [Tid -> Seq(Key)] /\ owed[running] \in Seq(Key)
         /\ owed = [owed EXCEPT ![running] = owed[running]]
         /\ ready \in [Tid -> BOOLEAN]
  BY DEF IInv, TypeOK, ReaderType

(* A line no character of which is copied yet is in the buffer. *)
LEMMA AllToCopy ==
  ASSUME IInv, owed[running] # <<>>, reader[running].at # "copy"
  PROVE  \A i \in (0 + 1)..Len(owed[running]) : term_buf[running][i - 1] = owed[running][i]
  BY RunningRead DEF IInv, ReadersRight, LineKept, Copied

LEMMA ReadBeginKeeps == ASSUME IInv, ReadBegin PROVE IInv'
<1>1. PICK n \in NBytes :
        reader' = [reader EXCEPT ![running] = [at |-> "wait", nbytes |-> n, out |-> <<>>]]
  BY Zenon DEF ReadBegin
<1>2. UNCHANGED <<term_buf, term_pos, ready, kbd_buf, buf_pos, viewing, running, owed>>
  BY DEF ReadBegin
<1>3. [at |-> "wait", nbytes |-> n, out |-> <<>>] \in ReaderType
  BY DEF ReaderType
<1>4. owed' = [owed EXCEPT ![running] = owed[running]]
  BY <1>2, RunningRead
<1>5. reader[running].at # "copy"
  BY DEF ReadBegin
<1>6. PICK r : r = [at |-> "wait", nbytes |-> n, out |-> <<>>]
  BY Zenon
<1>7. r.at = "wait" /\ r.out = <<>>
  BY <1>6
<1> QED
  BY <1>1, <1>2, <1>3, <1>4, <1>5, <1>6, <1>7, AllToCopy, RunningRead, ReadStepKeeps, Zenon

LEMMA WaitEndsKeeps == ASSUME IInv, WaitEnds PROVE IInv'
<1> DEFINE r == [reader[running] EXCEPT !.at = "copy"]
<1>1. UNCHANGED <<term_buf, term_pos, ready, kbd_buf, buf_pos, viewing, running, owed>>
  BY DEF WaitEnds
<1>2. reader' = [reader EXCEPT ![running] = r]
  BY RunningRead DEF WaitEnds
<1>3. r \in ReaderType /\ r.out = <<>> /\ r.at = "copy" /\ r.nbytes \in Nat
  <2>1. reader[running].out = <<>>
    BY RunningRead DEF IInv, ReadersRight, WaitEnds
  <2>2. reader[running] \in ReaderType /\ NBytes \cup {0} \subseteq Nat
    BY RunningRead, KeyboardAssumption
  <2> QED  BY <2>1, <2>2 DEF ReaderType
<1>4. ready[running]
  BY DEF WaitEnds
<1>5. owed' = [owed EXCEPT ![running] = owed[running]]
  BY <1>1, RunningRead
<1> HIDE DEF r
<1>6. Len(r.out) <= r.nbytes /\ Len(r.out) <= Len(owed[running]) /\ 1..Len(r.out) = {} /\ Len(r.out) = 0
  BY <1>3, RunningRead
<1>7. reader[running].at # "copy"
  BY DEF WaitEnds
<1> QED
  BY <1>1, <1>2, <1>3, <1>4, <1>5, <1>6, <1>7, AllToCopy, RunningRead, ReadStepKeeps, Zenon

(* A read that ends leaves the line, if all of it is in the buffer. *)
LEMMA ReadFaultsKeeps == ASSUME IInv, ReadFaults PROVE IInv'
<1> DEFINE o == owed[running]
           w == IF Prefix(running, Len(o)) = o THEN o ELSE <<>>
<1>1. UNCHANGED <<term_buf, term_pos, ready, kbd_buf, buf_pos, viewing, running>>
  BY DEF ReadFaults
<1>2. reader' = [reader EXCEPT ![running] = Idle] /\ owed' = [owed EXCEPT ![running] = w]
  BY Zenon DEF ReadFaults
<1>3. Idle \in ReaderType /\ Idle.at = "user"
  BY DEF Idle, ReaderType
<1>4. w \in Seq(Key) /\ w \in {<<>>, o}
  BY RunningRead
<1>5. ASSUME w # <<>>
      PROVE  \A i \in (0 + 1)..Len(w) : term_buf[running][i - 1] = w[i]
  <2>1. w = Prefix(running, Len(w))
    BY <1>5
  <2> HIDE DEF w, o
  <2>2. \A i \in (0 + 1)..Len(w) : Prefix(running, Len(w))[i] = term_buf[running][i - 1]
    BY <1>4, LenProperties DEF Prefix
  <2> QED  BY <2>1, <2>2, Zenon
<1> HIDE DEF w
<1> QED
  BY <1>1, <1>2, <1>3, <1>4, <1>5, RunningRead, ReadStepKeeps, Zenon

LEMMA ReadReturnKeeps == ASSUME IInv, ReadReturn PROVE IInv'
<1>1. UNCHANGED <<term_buf, term_pos, kbd_buf, buf_pos, viewing, running>>
  BY DEF ReadReturn
<1>2. reader' = [reader EXCEPT ![running] = Idle] /\ owed' = [owed EXCEPT ![running] = <<>>]
  BY DEF ReadReturn
<1>3. Idle \in ReaderType /\ Idle.at = "user" /\ <<>> \in Seq(Key)
  BY DEF Idle, ReaderType
<1>4. ready' \in [Tid -> BOOLEAN] /\ \A t \in Tid \ {running} : ready'[t] = ready[t]
  BY RunningRead DEF ReadReturn
<1> QED
  BY <1>1, <1>2, <1>3, <1>4, RunningRead, ReadStepKeeps, Zenon

(* A character copied while the reader's own terminal is viewed is the     *)
(* next one of the line; otherwise nothing is owed any more.               *)
LEMMA CopyCharKeeps == ASSUME IInv, CopyChar PROVE IInv'
<1> DEFINE out == reader[running].out
           c == term_buf[kbd_buf][Len(out)]
           r == [reader[running] EXCEPT !.out = Append(out, c)]
           w == IF kbd_buf = running THEN owed[running] ELSE <<>>
<1>1. /\ reader[running].at = "copy" /\ ~CopyEnds(reader[running])
      /\ UNCHANGED <<term_buf, term_pos, ready, kbd_buf, buf_pos, viewing, running>>
  BY DEF CopyChar
<1>2. reader' = [reader EXCEPT ![running] = r]
  BY RunningRead DEF CopyChar
<1>3. owed' = [owed EXCEPT ![running] = w]
  BY RunningRead, Zenon DEF CopyChar
<1>4. w \in Seq(Key) /\ w \in {<<>>, owed[running]}
  BY RunningRead
<1>5. out \in Seq(Key \cup {Nul}) /\ reader[running].nbytes \in Nat /\ Len(out) \in Nat
  BY RunningRead, KeyboardAssumption DEF ReaderType
<1>6. /\ Len(out) < reader[running].nbytes /\ Len(out) <= KBD_BUF_SIZE - 1
      /\ out = <<>> \/ out[Len(out)] # Newline
  BY <1>1, <1>5, KeyboardAssumption DEF CopyEnds
<1>7. Len(out) \in Index
  BY <1>5, <1>6, KeyboardAssumption DEF Index
<1>8. c \in Key \cup {Nul}
  BY <1>7 DEF IInv, TypeOK
<1>9. /\ Append(out, c) \in Seq(Key \cup {Nul})
      /\ Len(Append(out, c)) = Len(out) + 1
      /\ Append(out, c)[Len(out) + 1] = c
      /\ \A i \in 1..Len(out) : Append(out, c)[i] = out[i]
  <2> HIDE DEF out, c
  <2> QED  BY <1>5, <1>8, AppendProperties
<1>10. /\ r \in ReaderType /\ r.at = "copy" /\ r.nbytes = reader[running].nbytes
       /\ r.out = Append(out, c)
  <2>1. reader[running] \in ReaderType
    BY RunningRead
  <2> HIDE DEF out, c
  <2> QED  BY <1>1, <1>9, <2>1, Zenon DEF ReaderType
<1>11. ready[running]
  BY <1>1, RunningRead DEF IInv, ReadersRight
<1>12. ASSUME w # <<>>
       PROVE  /\ Len(r.out) <= r.nbytes /\ Len(r.out) <= Len(w)
              /\ \A i \in 1..Len(r.out) : r.out[i] = w[i]
              /\ \A i \in (Len(r.out) + 1)..Len(w) : term_buf[running][i - 1] = w[i]
  <2>1. kbd_buf = running /\ w = owed[running] /\ owed[running] # <<>>
    BY <1>12
  <2>2. LineKept(running) /\ CopiedOf(running)
    BY <1>1, <2>1, RunningRead DEF IInv, ReadersRight
  <2>3. /\ w \in Seq(Key) /\ Len(w) \in Nat \ {0} /\ w[Len(w)] = Newline
        /\ Len(out) <= Len(w) /\ \A i \in 1..Len(out) : out[i] = w[i]
        /\ \A i \in (Len(out) + 1)..Len(w) : term_buf[running][i - 1] = w[i]
    BY <1>1, <1>4, <1>12, <2>1, <2>2, EmptySeq DEF LineKept, CopiedOf, Copied
  <2> HIDE DEF out, w, r
  <2>4. Len(out) # Len(w)
    BY <1>5, <1>6, <2>3
  <2>5. /\ Len(out) + 1 \in 1..Len(w) /\ (Len(out) + 1) - 1 = Len(out)
        /\ Len(out) + 1 \in (Len(out) + 1)..Len(w)
    BY <1>5, <2>3, <2>4
  <2>6. c = w[Len(out) + 1]
    BY <2>1, <2>3, <2>5
  <2> HIDE DEF c
  <2>7. \A i \in 1..(Len(out) + 1) : Append(out, c)[i] = w[i]
    <3> TAKE i \in 1..(Len(out) + 1)
    <3>1. CASE i = Len(out) + 1
      BY <1>9, <2>6, <3>1
    <3>2. CASE i \in 1..Len(out)
      BY <1>9, <2>3, <3>2
    <3> QED  BY <1>5, <3>1, <3>2
  <2> QED  BY <1>5, <1>6, <1>9, <1>10, <2>3, <2>5, <2>7
<1> HIDE DEF r, w
<1> QED
  BY <1>1, <1>2, <1>3, <1>4, <1>10, <1>11, <1>12, RunningRead, ReadStepKeeps, Zenon

LEMMA TickKeeps == ASSUME IInv, Tick PROVE IInv'
<1>1. running' \in Tid
  BY KeyboardAssumption DEF IInv, TypeOK, Tick, Tid
<1>2. UNCHANGED <<term_buf, term_pos, ready, kbd_buf, buf_pos, viewing, reader, owed>>
  BY DEF Tick
<1> QED
  BY <1>1, <1>2 DEF IInv, TypeOK, LinesTyped, Pos, ReadersRight, LineKept, CopiedOf, Copied

(* Every step keeps the invariant. *)
LEMMA StepIInv == IInv /\ [Next]_vars => IInv'
<1> SUFFICES ASSUME IInv, [Next]_vars PROVE IInv'
  OBVIOUS
<1>1. CASE UNCHANGED vars
  <2> USE <1>1 DEF vars, IInv
  <2>1. TypeOK' /\ (kbd_buf = viewing)'
    BY Zenon DEF TypeOK
  <2>2. LinesTyped'
    BY Zenon DEF LinesTyped, Pos
  <2>3. ReadersRight'
    BY Zenon DEF ReadersRight, LineKept, CopiedOf, Copied
  <2> QED
    BY <2>1, <2>2, <2>3
<1> QED
  BY <1>1, PressKeyKeeps, BackspaceKeeps, SwitchKeeps, ReadBeginKeeps, WaitEndsKeeps, CopyCharKeeps,
     ReadReturnKeeps, ReadFaultsKeeps, TickKeeps DEF Next, ReadStep

-----------------------------------------------------------------------------
(* No index leaves its buffer, whatever is typed and whoever reads. *)
THEOREM BuffersTyped == Spec => []TypeOK
<1>1. IInv => TypeOK
  BY DEF IInv
<1> QED
  BY <1>1, InitIInv, StepIInv, PTL DEF Spec

(* What a read that ends has copied of the line it was owed. *)
LEMMA CopyEndsRight ==
  ASSUME IInv, NEW t \in Tid, reader[t].at = "copy", owed[t] # <<>>, CopyEnds(reader[t])
  PROVE  reader[t].out =
           SubSeq(owed[t], 1, IF reader[t].nbytes < Len(owed[t]) THEN reader[t].nbytes ELSE Len(owed[t]))
<1> DEFINE out == reader[t].out
           n == reader[t].nbytes
           w == owed[t]
           m == IF n < Len(w) THEN n ELSE Len(w)
<1>1. out \in Seq(Key \cup {Nul}) /\ n \in Nat /\ w \in Seq(Key) /\ Len(out) \in Nat
  <2>1. reader[t] \in ReaderType /\ w \in Seq(Key)
    BY DEF IInv, TypeOK, ReaderType
  <2>2. out \in Seq(Key \cup {Nul}) /\ n \in NBytes \cup {0}
    BY <2>1 DEF ReaderType
  <2> HIDE DEF out, n, w
  <2>3. n \in Nat
    BY <2>2, KeyboardAssumption
  <2> QED  BY <2>1, <2>2, <2>3, LenProperties
<1>2. LineKept(t) /\ CopiedOf(t)
  BY DEF IInv, ReadersRight
<1>3. /\ Len(w) \in Nat \ {0} /\ Len(w) <= KBD_BUF_SIZE
      /\ \A i \in 1..(Len(w) - 1) : w[i] \in Char
      /\ Len(out) <= n /\ Len(out) <= Len(w) /\ \A i \in 1..Len(out) : out[i] = w[i]
  BY <1>1, <1>2, EmptySeq DEF LineKept, CopiedOf
<1>4. \/ Len(out) >= n
      \/ Len(out) > KBD_BUF_SIZE - 1
      \/ out # <<>> /\ out[Len(out)] = Newline
  BY DEF CopyEnds
<1> HIDE DEF out, n, w
<1>5. Len(out) = m
  <2>1. CASE Len(out) >= n
    BY <1>1, <1>3, <2>1
  <2>2. CASE Len(out) > KBD_BUF_SIZE - 1
    BY <1>1, <1>3, <2>2, KeyboardAssumption
  <2>3. CASE out # <<>> /\ out[Len(out)] = Newline
    <3>1. Len(out) \in 1..Len(out)
      BY <1>1, <2>3, EmptySeq
    <3>2. w[Len(out)] \notin Char
      BY <1>3, <2>3, <3>1, KeyboardAssumption
    <3>3. Len(out) = Len(w)
      BY <1>1, <1>3, <3>1, <3>2
    <3> QED  BY <1>1, <1>3, <3>3
  <2> QED  BY <1>4, <2>1, <2>2, <2>3
<1>6. /\ SubSeq(w, 1, m) \in Seq(Key) /\ Len(SubSeq(w, 1, m)) = m
      /\ \A i \in 1..m : SubSeq(w, 1, m)[i] = w[i]
  BY <1>1, <1>3, SubSeqProperties
<1>7. out = SubSeq(w, 1, m)
  <2>1. SubSeq(w, 1, m) \in Seq(Key \cup {Nul})
    BY <1>6
  <2> HIDE DEF m
  <2> QED  BY <1>1, <1>3, <1>5, <1>6, <2>1, SeqEqual
<1> QED
  BY <1>7 DEF out, n, w

(* kbd_buf_ready is reset by the return of the terminal's own read alone. *)
LEMMA OnlyReturnResets ==
  ASSUME IInv, [Next]_vars, NEW t \in Tid, ready[t], ~ready'[t]
  PROVE  t = running /\ ReadReturn
<1>1. ready \in [Tid -> BOOLEAN]
  BY DEF IInv, TypeOK
<1>2. ASSUME NEW c \in Key, PressKey(c) PROVE FALSE
  BY <1>1, <1>2, StoreCases DEF PressKey
<1>3. CASE ready' = ready
  BY <1>3
<1>4. CASE ReadReturn
  BY <1>1, <1>4 DEF ReadReturn
<1>5. ReadReturn \/ ready' = ready
  BY <1>2 DEF Next, Backspace, switch_terminal, ReadBegin, ReadStep, WaitEnds, CopyChar, ReadFaults, Tick, vars
<1> QED
  BY <1>3, <1>4, <1>5

(***************************************************************************)
(* A read returns the line that was entered, cut off at the length asked   *)
(* for, unless a key changes one of its places before that is copied, or a *)
(* character is copied while another terminal is viewed.                   *)
(***************************************************************************)
THEOREM ReadsReturnLines == Spec => ReadReturnsLine
<1>1. ASSUME IInv, [Next]_vars, NEW t \in Tid, ready[t], ~ready'[t], owed[t] # <<>>
      PROVE  LET n == reader[t].nbytes
             IN  reader[t].out = SubSeq(owed[t], 1, IF n < Len(owed[t]) THEN n ELSE Len(owed[t]))
  <2>1. t = running /\ reader[t].at = "copy" /\ CopyEnds(reader[t])
    BY <1>1, OnlyReturnResets DEF ReadReturn
  <2> QED
    BY <1>1, <2>1, CopyEndsRight
<1>2. IInv /\ [Next]_vars =>
        [\A t \in Tid :
           (ready[t] /\ ~ ready'[t] /\ owed[t] # <<>>) =>
             LET n == reader[t].nbytes
             IN  reader[t].out = SubSeq(owed[t], 1, IF n < Len(owed[t]) THEN n ELSE Len(owed[t]))
        ]_vars
  BY <1>1
<1> QED
  BY <1>2, InitIInv, StepIInv, PTL DEF Spec, ReadReturnsLine

-----------------------------------------------------------------------------
(* The lines being typed, as the line editor sees them. *)
Lines == [t \in Tid |-> Prefix(t, Pos(t))]

LEMMA LinesAre ==
  ASSUME IInv, NEW t \in Tid
  PROVE  /\ Pos(t) \in Index /\ Pos(t) \in Nat
         /\ Lines[t] = Prefix(t, Pos(t)) /\ Lines[t] \in Seq(Char)
         /\ Len(Lines[t]) = Pos(t)
         /\ \A i \in 1..Pos(t) : Lines[t][i] = term_buf[t][i - 1]
<1>1. Pos(t) \in Index /\ Pos(t) \in Nat
  BY DEF IInv, TypeOK, Pos, Index
<1>2. Lines[t] = Prefix(t, Pos(t))
  BY DEF Lines
<1> QED
  BY <1>1, <1>2, PrefixSeq DEF IInv, LinesTyped

(* Lines whose buffers and positions stay are the same lines. *)
LEMMA LinesStay ==
  ASSUME IInv, NEW S \in SUBSET Tid,
         \A t \in S : Pos(t)' = Pos(t) /\ \A i \in 0..(Pos(t) - 1) : term_buf'[t][i] = term_buf[t][i]
  PROVE  \A t \in S : Lines'[t] = Lines[t]
<1> SUFFICES ASSUME NEW t \in S PROVE Lines'[t] = Lines[t]
  OBVIOUS
<1>1. Pos(t) \in Nat /\ t \in Tid
  BY LinesAre
<1>2. Lines'[t] = [i \in 1..Pos(t) |-> term_buf'[t][i - 1]]
  BY <1>1 DEF Lines, Prefix
<1>3. \A i \in 1..Pos(t) : term_buf'[t][i - 1] = term_buf[t][i - 1]
  BY <1>1
<1>4. Lines[t] = [i \in 1..Pos(t) |-> term_buf[t][i - 1]]
  BY <1>1 DEF Lines, Prefix
<1> QED
  BY <1>2, <1>3, <1>4

(* A key typed in the middle of a line is appended to it. *)
LEMMA TypeAppends ==
  ASSUME IInv, NEW c \in Char, buf_pos < KBD_BUF_SIZE - 1,
         term_buf' = [term_buf EXCEPT ![viewing][buf_pos] = c],
         buf_pos' = buf_pos + 1, UNCHANGED <<term_pos, viewing>>
  PROVE  Lines' = [Lines EXCEPT ![viewing] = Append(@, c)]
<1>1. viewing \in Tid /\ buf_pos \in Index /\ buf_pos \in Nat
  BY DEF IInv, TypeOK, Index
<1>2. Pos(viewing) = buf_pos /\ Pos(viewing)' = buf_pos + 1
  BY DEF Pos
<1>3. /\ \A t \in Tid \ {viewing} : term_buf'[t] = term_buf[t]
      /\ \A i \in 0..(buf_pos - 1) : term_buf'[viewing][i] = term_buf[viewing][i]
      /\ term_buf'[viewing][buf_pos] = c
  BY <1>1 DEF IInv, TypeOK
<1>4. \A t \in Tid \ {viewing} : Pos(t)' = Pos(t)
  BY DEF Pos
<1>5. \A t \in Tid \ {viewing} : Lines'[t] = Lines[t]
  BY <1>3, <1>4, LinesStay, Zenon
<1> DEFINE w == Lines[viewing]
<1>6. w \in Seq(Char) /\ Len(w) = buf_pos /\ \A i \in 1..buf_pos : w[i] = term_buf[viewing][i - 1]
  BY <1>1, <1>2, LinesAre
<1>7. Lines'[viewing] = [i \in 1..(buf_pos + 1) |-> term_buf'[viewing][i - 1]]
  BY <1>1, <1>2 DEF Lines, Prefix
<1> HIDE DEF w
<1>8. PICK new : /\ new = Append(w, c)
                 /\ new \in Seq(Char) /\ Len(new) = buf_pos + 1
                 /\ new[buf_pos + 1] = c /\ \A i \in 1..buf_pos : new[i] = w[i]
  <2>1. /\ Append(w, c) \in Seq(Char) /\ Len(Append(w, c)) = buf_pos + 1
        /\ Append(w, c)[buf_pos + 1] = c /\ \A i \in 1..buf_pos : Append(w, c)[i] = w[i]
    BY <1>6, AppendProperties
  <2> QED  BY <2>1, Zenon
<1>9. \A i \in 1..(buf_pos + 1) : term_buf'[viewing][i - 1] = new[i]
  <2> TAKE i \in 1..(buf_pos + 1)
  <2>1. CASE i = buf_pos + 1
    BY <1>1, <1>3, <1>8, <2>1
  <2>2. CASE i \in 1..buf_pos
    <3>1. i - 1 \in 0..(buf_pos - 1)
      BY <1>1, <2>2
    <3> QED  BY <1>3, <1>6, <1>8, <2>2, <3>1
  <2> QED  BY <1>1, <2>1, <2>2
<1>10. Lines'[viewing] = new
  <2>1. new = [i \in 1..(buf_pos + 1) |-> new[i]]
    BY <1>8, LenProperties, Zenon
  <2> QED  BY <1>7, <1>9, <2>1
<1>11. Lines' = [t \in Tid |-> IF t = viewing THEN new ELSE Lines[t]]
  BY <1>5, <1>10 DEF Lines
<1> QED
  BY <1>1, <1>8, <1>11, Zenon DEF w, Lines

(* Enter leaves an empty line. *)
LEMMA EnterEmpties ==
  ASSUME IInv, term_buf' = [term_buf EXCEPT ![viewing][buf_pos] = Newline],
         buf_pos' = 0, UNCHANGED <<term_pos, viewing>>
  PROVE  Lines' = [Lines EXCEPT ![viewing] = <<>>]
<1>1. viewing \in Tid
  BY DEF IInv, TypeOK
<1>2. \A t \in Tid \ {viewing} : term_buf'[t] = term_buf[t] /\ Pos(t)' = Pos(t)
  BY <1>1 DEF IInv, TypeOK, Pos
<1>3. \A t \in Tid \ {viewing} : Lines'[t] = Lines[t]
  BY <1>2, LinesStay, Zenon
<1>4. Lines'[viewing] = <<>>
  BY <1>1 DEF Lines, Prefix, Pos
<1>5. Lines' = [t \in Tid |-> IF t = viewing THEN <<>> ELSE Lines[t]]
  BY <1>3, <1>4 DEF Lines
<1> QED
  BY <1>1, <1>5, Zenon DEF Lines

(* Backspace takes the last key off the line. *)
LEMMA BackspaceShortens ==
  ASSUME IInv, Backspace
  PROVE  /\ Lines[viewing] # <<>>
         /\ Lines' = [Lines EXCEPT ![viewing] = SubSeq(@, 1, Len(@) - 1)]
<1>1. viewing \in Tid /\ buf_pos \in Nat \ {0} /\ buf_pos' = buf_pos - 1 /\ term_buf' = term_buf
  BY DEF IInv, TypeOK, Backspace, Index
<1>2. \A t \in Tid \ {viewing} : Pos(t)' = Pos(t)
  BY DEF Pos, Backspace
<1>3. \A t \in Tid \ {viewing} : Lines'[t] = Lines[t]
  BY <1>1, <1>2, LinesStay, Zenon
<1> DEFINE w == Lines[viewing]
<1>4. w \in Seq(Char) /\ Len(w) = buf_pos /\ \A i \in 1..buf_pos : w[i] = term_buf[viewing][i - 1]
  BY <1>1, LinesAre DEF Pos
<1>5. Lines'[viewing] = [i \in 1..(buf_pos - 1) |-> term_buf[viewing][i - 1]]
  <2>1. Pos(viewing)' = buf_pos - 1
    BY <1>1 DEF Pos, Backspace
  <2> QED  BY <1>1, <2>1 DEF Lines, Prefix, Backspace
<1> HIDE DEF w
<1>6. PICK new : /\ new = SubSeq(w, 1, Len(w) - 1)
                 /\ new \in Seq(Char) /\ Len(new) = buf_pos - 1
                 /\ \A i \in 1..(buf_pos - 1) : new[i] = w[i]
  <2>1. /\ SubSeq(w, 1, Len(w) - 1) \in Seq(Char) /\ Len(SubSeq(w, 1, Len(w) - 1)) = buf_pos - 1
        /\ \A i \in 1..(buf_pos - 1) : SubSeq(w, 1, Len(w) - 1)[i] = w[i]
    BY <1>1, <1>4, SubSeqProperties
  <2> QED  BY <2>1, Zenon
<1>7. Lines'[viewing] = new
  <2>1. new = [i \in 1..(buf_pos - 1) |-> new[i]]
    BY <1>6, LenProperties
  <2>2. \A i \in 1..(buf_pos - 1) : new[i] = term_buf[viewing][i - 1]
    BY <1>1, <1>4, <1>6
  <2> QED  BY <1>5, <2>1, <2>2
<1>8. Lines' = [t \in Tid |-> IF t = viewing THEN new ELSE Lines[t]]
  BY <1>3, <1>7 DEF Lines
<1>9. w # <<>>
  BY <1>1, <1>4
<1> QED
  BY <1>1, <1>6, <1>8, <1>9, Zenon DEF w, Lines

(* A step of the keyboard component is a step of the line editor. *)
LEMMA StepRefines == IInv /\ [Next]_vars => [L!Next]_(L!vars)
<1> SUFFICES ASSUME IInv, [Next]_vars PROVE [L!Next]_(L!vars)
  OBVIOUS
<1>0. viewing \in Tid /\ running \in Tid
  BY DEF IInv, TypeOK
<1>1. ASSUME NEW c \in Key, PressKey(c) PROVE [L!Next]_(L!vars)
  <2>1. UNCHANGED <<term_pos, viewing>>
    BY <1>1 DEF PressKey
  <2>2. CASE /\ c = Newline /\ term_buf' = [term_buf EXCEPT ![viewing][buf_pos] = c]
             /\ buf_pos' = 0 /\ ready' = [ready EXCEPT ![viewing] = TRUE]
    <3>1. Lines' = [Lines EXCEPT ![viewing] = <<>>]
      BY <2>1, <2>2, EnterEmpties
    <3> QED  BY <2>1, <2>2, <3>1 DEF L!Next, L!Enter, Lines, Pos
  <2>3. CASE /\ c \in Char /\ buf_pos < KBD_BUF_SIZE - 1
             /\ term_buf' = [term_buf EXCEPT ![viewing][buf_pos] = c]
             /\ buf_pos' = buf_pos + 1 /\ ready' = ready
    <3>1. Lines' = [Lines EXCEPT ![viewing] = Append(@, c)]
      BY <2>1, <2>3, TypeAppends, Zenon
    <3>2. Len(Lines[viewing]) < KBD_BUF_SIZE - 1
      BY <1>0, <2>3, LinesAre DEF Pos
    <3> QED  BY <2>1, <2>3, <3>1, <3>2, Zenon DEF L!Next, L!Type, Lines, Pos
  <2>4. CASE c \in Char /\ UNCHANGED <<term_buf, buf_pos, ready>>
    BY <2>1, <2>4 DEF L!vars, Prefix
  <2> QED  BY <1>1, <2>2, <2>3, <2>4, StoreCases DEF PressKey
<1>2. CASE Backspace
  BY <1>2, BackspaceShortens DEF Backspace, L!Next, L!RubOut, Lines, Pos
<1>3. ASSUME NEW target \in Tid, switch_terminal(target) PROVE [L!Next]_(L!vars)
  <2>1. term_buf' = term_buf /\ ready' = ready /\ viewing' = target
    BY <1>3 DEF switch_terminal
  <2>2. \A t \in Tid : Lines'[t] = Lines[t]
    BY <1>3, <2>1, SwitchPositions, LinesStay
  <2>3. Lines' = Lines
    BY <2>2 DEF Lines
  <2> QED  BY <2>1, <2>3 DEF L!Next, L!View, L!Tid, Tid, Lines, Pos
<1>4. ASSUME UNCHANGED <<term_buf, term_pos, buf_pos, viewing, ready>> PROVE UNCHANGED L!vars
  BY <1>4 DEF L!vars, Prefix
<1>5. CASE ReadReturn
  <2>1. UNCHANGED <<term_buf, term_pos, buf_pos, viewing>> /\ ready' = [ready EXCEPT ![running] = FALSE]
    BY <1>5 DEF ReadReturn
  <2>2. ready[running]
    BY <1>0, <1>5 DEF ReadReturn, IInv, ReadersRight
  <2> QED  BY <1>0, <2>1, <2>2, Zenon DEF L!Next, L!Take, L!Tid, Tid, Prefix
<1>6. CASE ReadBegin \/ WaitEnds \/ CopyChar \/ ReadFaults \/ Tick \/ UNCHANGED vars
  BY <1>4, <1>6 DEF ReadBegin, WaitEnds, CopyChar, ReadFaults, Tick, vars
<1> QED
  BY <1>1, <1>2, <1>3, <1>5, <1>6 DEF Next, ReadStep

(***************************************************************************)
(* The component implements the line editor, step by step: keys edit the   *)
(* viewed terminal's line and no other, a switch loses nothing, and no     *)
(* read returns without an Enter in its terminal.                          *)
(***************************************************************************)
THEOREM KeyboardIsLineEditor == Spec => RefinesLineEditor
<1>1. Init => L!Init
  BY DEF Init, L!Init, L!Tid, Tid, Prefix
<1> QED
  BY <1>1, InitIInv, StepIInv, StepRefines, PTL DEF Spec, RefinesLineEditor, L!Spec

-----------------------------------------------------------------------------
(* Lines in service and handlers at work *)

(* The part of the type invariant the argument needs. *)
StacksTyped ==
  /\ running \in Tid
  /\ if \in BOOLEAN
  /\ stack \in [Tid -> Seq(Frame)]

(***************************************************************************)
(* A handler is interrupted only after its sti: below the top of a stack   *)
(* all have sent their end-of-interrupt.                                   *)
(***************************************************************************)
BelowTopReturning ==
  \A t \in Tid : \A k \in 1..(Len(stack[t]) - 1) : stack[t][k].at = "ret"

(* A terminal is left by its timer's handler only, after the same. *)
NoneAtWorkElsewhere ==
  \A t \in Tid \ {running} : stack[t] # <<>> => Top(t).at # "work"

(* The handler at work is the running terminal's innermost. *)
AtWork == stack[running] # <<>> /\ Top(running).at = "work"

(* While interrupts are on, the innermost handler only has to return. *)
OnlyReturningIfOn ==
  if /\ stack[running] # <<>> => Top(running).at = "ret"

(* The lines in service are those of the handler at work. *)
TopInService ==
  isr = IF AtWork THEN Occupies(IrqOf(Top(running).handler)) ELSE {}

ServiceInv ==
  /\ StacksTyped /\ BelowTopReturning /\ NoneAtWorkElsewhere
  /\ OnlyReturningIfOn /\ TopInService

-----------------------------------------------------------------------------
(* The gate of each device's vector leads to that device's handler. *)
LEMMA GateOfDevice ==
  ASSUME NEW device \in Device
  PROVE  /\ idt(Vector(device)) \in Handler
         /\ IrqOf(idt(Vector(device))) = device
<1>1. CASE device = 0
  BY <1>1 DEF Vector, idt, Handler, IrqOf, PIT_IRQ
<1>2. CASE device = 1
  BY <1>2 DEF Vector, idt, Handler, IrqOf, KEYBOARD_IRQ
<1>3. CASE device = 8
  BY <1>3 DEF Vector, idt, Handler, IrqOf, RTC_IRQ
<1> QED
  BY <1>1, <1>2, <1>3 DEF Device, PIT_IRQ, KEYBOARD_IRQ, RTC_IRQ

(* The end-of-interrupt of a line ends all that its interrupt occupied. *)
LEMMA EoiEnds ==
  ASSUME NEW device, isr = Occupies(device)
  PROVE  send_eoi(device) = {}
BY DEF send_eoi, Occupies

(* The stacks once the running terminal's innermost handler has gone on. *)
WithTop(new) == [stack EXCEPT ![running][Depth(running)].at = new]

(* The innermost handler's state changes, and nothing below it. *)
LEMMA TopChanges ==
  ASSUME StacksTyped, stack[running] # <<>>, NEW new \in {"work", "switched", "ret"}
  PROVE  /\ WithTop(new) \in [Tid -> Seq(Frame)]
         /\ \A t \in Tid \ {running} : WithTop(new)[t] = stack[t]
         /\ Len(WithTop(new)[running]) = Depth(running) /\ WithTop(new)[running] # <<>>
         /\ \A k \in 1..(Depth(running) - 1) : WithTop(new)[running][k] = stack[running][k]
         /\ WithTop(new)[running][Depth(running)] = [Top(running) EXCEPT !.at = new]
<1>1. /\ stack[running] \in Seq(Frame) /\ Len(stack[running]) \in Nat \ {0}
      /\ DOMAIN stack[running] = 1..Len(stack[running])
  BY DEF StacksTyped
<1>2. Top(running) \in Frame
  BY <1>1 DEF Top, Depth
<1>3. [Top(running) EXCEPT !.at = new] \in Frame
  BY <1>2 DEF Frame
<1> DEFINE u == [stack[running] EXCEPT ![Depth(running)] = [Top(running) EXCEPT !.at = new]]
<1>4. u \in Seq(Frame) /\ Len(u) = Len(stack[running])
  BY <1>1, <1>3 DEF Depth
<1>5. WithTop(new) = [stack EXCEPT ![running] = u]
  BY DEF Top, Depth, WithTop
<1>6. /\ \A k \in 1..(Depth(running) - 1) : u[k] = stack[running][k]
      /\ u[Depth(running)] = [Top(running) EXCEPT !.at = new]
  BY <1>1 DEF Depth
<1> HIDE DEF u
<1>7. WithTop(new)[running] = u /\ WithTop(new) \in [Tid -> Seq(Frame)] /\ \A t \in Tid \ {running} : WithTop(new)[t] = stack[t]
  BY <1>4, <1>5 DEF StacksTyped
<1>8. u # <<>>
  BY <1>1, <1>4
<1> QED
  BY <1>4, <1>6, <1>7, <1>8 DEF Depth

(* At boot nothing is in service. *)
LEMMA InitServiceInv == IntInit => ServiceInv
  BY InterruptsAssumption DEF IntInit, ServiceInv, StacksTyped, BelowTopReturning, NoneAtWorkElsewhere,
     OnlyReturningIfOn, TopInService, AtWork, Tid

-----------------------------------------------------------------------------
(* Steps that leave stacks and controllers alone and turn interrupts on    *)
(* only where no handler is, or off, keep ServiceInv.                            *)
LEMMA StacksKept ==
  ASSUME ServiceInv, UNCHANGED <<stack, running, isr>>,
         if' \in BOOLEAN, if' = if \/ ~ if' \/ stack[running] = <<>>
  PROVE  ServiceInv'
BY DEF ServiceInv, StacksTyped, BelowTopReturning, NoneAtWorkElsewhere, OnlyReturningIfOn,
       TopInService, AtWork, Top, Depth

(* An interrupt is taken when no handler is at work: its own is now. *)
LEMMA AcceptKeeps ==
  ASSUME ServiceInv, NEW device \in Device, Accept(device)
  PROVE  ServiceInv'
<1> DEFINE f == [handler |-> idt(Vector(device)), at |-> "work"]
           u == Append(stack[running], f)
<1>1. /\ running' = running /\ running \in Tid /\ if' = FALSE /\ if = TRUE
      /\ stack' = [stack EXCEPT ![running] = u] /\ isr' = isr \cup Occupies(device)
      /\ stack \in [Tid -> Seq(Frame)]
  BY DEF Accept, ServiceInv, StacksTyped
<1>2. f \in Frame /\ IrqOf(f.handler) = device /\ f.at = "work"
  BY GateOfDevice DEF Frame
<1> HIDE DEF f
<1>3. /\ stack[running] \in Seq(Frame) /\ Len(stack[running]) \in Nat
      /\ u \in Seq(Frame) /\ Len(u) = Len(stack[running]) + 1 /\ u # <<>>
      /\ u[Len(u)] = f
      /\ \A k \in 1..Len(stack[running]) : u[k] = stack[running][k]
  BY <1>1, <1>2
<1>4. \A k \in 1..Len(stack[running]) : stack[running][k].at = "ret"
  <2>1. \A k \in 1..(Len(stack[running]) - 1) : stack[running][k].at = "ret"
    BY <1>1 DEF ServiceInv, BelowTopReturning
  <2>2. stack[running] # <<>> => stack[running][Len(stack[running])].at = "ret"
    BY <1>1 DEF ServiceInv, OnlyReturningIfOn, Top, Depth
  <2>3. Len(stack[running]) # 0 => stack[running] # <<>>
    BY <1>3
  <2> QED
    BY <2>1, <2>2, <2>3, <1>3
<1>5. isr = {}
  BY <1>1, <1>3, <1>4 DEF ServiceInv, TopInService, AtWork, OnlyReturningIfOn
<1> HIDE DEF u
<1>6. stack'[running] = u /\ \A t \in Tid \ {running} : stack'[t] = stack[t]
  BY <1>1
<1>7. StacksTyped'
  BY <1>1, <1>3, Zenon DEF StacksTyped
<1>8. BelowTopReturning'
  <2>1. \A k \in 1..(Len(u) - 1) : u[k].at = "ret"
    BY <1>3, <1>4
  <2> QED
    BY <1>6, <2>1 DEF ServiceInv, BelowTopReturning
<1>9. NoneAtWorkElsewhere'
  BY <1>1, <1>6 DEF ServiceInv, NoneAtWorkElsewhere, Top, Depth
<1>10. OnlyReturningIfOn'
  BY <1>1 DEF OnlyReturningIfOn
<1>11. TopInService'
  BY <1>1, <1>2, <1>3, <1>5, <1>6 DEF TopInService, AtWork, Top, Depth
<1> QED
  BY <1>7, <1>8, <1>9, <1>10, <1>11 DEF ServiceInv

(* What holds of the stacks once the innermost handler has gone on. *)
LEMMA TopGoesOn ==
  ASSUME ServiceInv, stack[running] # <<>>, NEW new \in {"switched", "ret"}
  PROVE  /\ WithTop(new) \in [Tid -> Seq(Frame)]
         /\ \A t \in Tid : \A k \in 1..(Len(WithTop(new)[t]) - 1) : WithTop(new)[t][k].at = "ret"
         /\ \A t \in Tid : WithTop(new)[t] # <<>> => WithTop(new)[t][Len(WithTop(new)[t])].at # "work"
         /\ WithTop(new)[running][Len(WithTop(new)[running])].at = new
<1>1. StacksTyped /\ running \in Tid /\ new \in {"work", "switched", "ret"}
  BY DEF ServiceInv, StacksTyped
<1>2. /\ WithTop(new) \in [Tid -> Seq(Frame)]
      /\ \A t \in Tid \ {running} : WithTop(new)[t] = stack[t]
      /\ Len(WithTop(new)[running]) = Depth(running) /\ WithTop(new)[running] # <<>>
      /\ \A k \in 1..(Depth(running) - 1) : WithTop(new)[running][k] = stack[running][k]
      /\ WithTop(new)[running][Depth(running)] = [Top(running) EXCEPT !.at = new]
  BY <1>1, TopChanges, Zenon
<1>3. Top(running) \in Frame
  <2>1. stack[running] \in Seq(Frame)
    BY <1>1 DEF StacksTyped
  <2> QED
    BY <2>1 DEF Top, Depth
<1>4. [Top(running) EXCEPT !.at = new].at = new
  BY <1>3 DEF Frame
<1>5. \A t \in Tid : \A k \in 1..(Len(WithTop(new)[t]) - 1) : WithTop(new)[t][k].at = "ret"
  <2>1. \A k \in 1..(Len(WithTop(new)[running]) - 1) : WithTop(new)[running][k].at = "ret"
    BY <1>1, <1>2 DEF ServiceInv, BelowTopReturning, Depth
  <2> QED
    BY <2>1, <1>2 DEF ServiceInv, BelowTopReturning
<1>6. \A t \in Tid : WithTop(new)[t] # <<>> => WithTop(new)[t][Len(WithTop(new)[t])].at # "work"
  BY <1>2, <1>4, Zenon DEF ServiceInv, NoneAtWorkElsewhere, Top, Depth
<1> QED
  BY <1>2, <1>4, <1>5, <1>6

(* A handler of a device ends its interrupt and turns interrupts on. *)
LEMMA DeviceKeeps ==
  ASSUME ServiceInv, NEW h \in Handler, DeviceHandler(h, IrqOf(h))
  PROVE  ServiceInv'
<1>1. /\ running' = running /\ running \in Tid /\ if' = TRUE
      /\ stack[running] # <<>> /\ Top(running) = [handler |-> h, at |-> "work"]
      /\ stack' = WithTop("ret")
      /\ isr' = send_eoi(IrqOf(h))
  BY DEF DeviceHandler, WithTop, TopIs, ServiceInv, StacksTyped
<1>2. isr = Occupies(IrqOf(h))
  BY <1>1 DEF ServiceInv, TopInService, AtWork
<1>3. isr' = {}
  BY <1>1, <1>2, EoiEnds
<1>4. /\ stack' \in [Tid -> Seq(Frame)]
      /\ \A t \in Tid : \A k \in 1..(Len(stack'[t]) - 1) : stack'[t][k].at = "ret"
      /\ \A t \in Tid : stack'[t] # <<>> => stack'[t][Len(stack'[t])].at # "work"
      /\ stack'[running][Len(stack'[running])].at = "ret"
  BY <1>1, TopGoesOn
<1> QED
  BY <1>1, <1>3, <1>4 DEF ServiceInv, StacksTyped, BelowTopReturning, NoneAtWorkElsewhere,
     OnlyReturningIfOn, TopInService, AtWork, Top, Depth

(* The timer's handler ends its interrupt before it leaves the stack. *)
LEMMA TimerKeeps ==
  ASSUME ServiceInv, pit_int_handler
  PROVE  ServiceInv'
<1>1. /\ running' = NextTerm /\ running' \in Tid
      /\ stack[running] # <<>> /\ Top(running) = [handler |-> "pit_entry", at |-> "work"]
      /\ isr' = send_eoi(PIT_IRQ)
  BY InterruptsAssumption DEF pit_int_handler, Switch, TopIs, ServiceInv, StacksTyped, NextTerm, Tid
<1>2. isr = Occupies(PIT_IRQ)
  BY <1>1 DEF ServiceInv, TopInService, AtWork, IrqOf
<1>3. isr' = {}
  BY <1>1, <1>2, EoiEnds
<1> DEFINE s == WithTop("switched")
<1>4. /\ s \in [Tid -> Seq(Frame)]
      /\ \A t \in Tid : \A k \in 1..(Len(s[t]) - 1) : s[t][k].at = "ret"
      /\ \A t \in Tid : s[t] # <<>> => s[t][Len(s[t])].at # "work"
  BY <1>1, TopGoesOn
<1>5. \/ stack' = s /\ if' = FALSE
      \/ stack' = [s EXCEPT ![NextTerm] = <<>>] /\ if' = TRUE
  BY DEF pit_int_handler, Switch, WithTop
<1> HIDE DEF s
<1>6. CASE stack' = s /\ if' = FALSE
  BY <1>1, <1>3, <1>4, <1>6, Zenon DEF ServiceInv, StacksTyped, BelowTopReturning, NoneAtWorkElsewhere,
     OnlyReturningIfOn, TopInService, AtWork, Top, Depth
<1>7. CASE stack' = [s EXCEPT ![NextTerm] = <<>>] /\ if' = TRUE
  <2>1. stack'[running'] = <<>> /\ \A t \in Tid \ {running'} : stack'[t] = s[t]
    BY <1>1, <1>4, <1>7
  <2>2. stack' \in [Tid -> Seq(Frame)]
    BY <1>1, <1>4, <1>7
  <2>3. Len(<<>>) = 0
    OBVIOUS
  <2>4. BelowTopReturning'
    BY <1>4, <2>1, <2>3 DEF BelowTopReturning
  <2> QED
    BY <1>1, <1>3, <1>4, <1>7, <2>1, <2>2, <2>4
    DEF ServiceInv, StacksTyped, NoneAtWorkElsewhere, OnlyReturningIfOn, TopInService, AtWork, Top, Depth
<1> QED
  BY <1>5, <1>6, <1>7, Zenon

(* The timer's handler goes on where the terminal was left. *)
LEMMA ResumeKeeps ==
  ASSUME ServiceInv, PitResumes
  PROVE  ServiceInv'
<1>1. /\ running' = running /\ running \in Tid /\ if' = TRUE /\ isr' = isr
      /\ stack[running] # <<>> /\ Top(running) = [handler |-> "pit_entry", at |-> "switched"]
      /\ stack' = WithTop("ret")
  BY DEF PitResumes, WithTop, TopIs, ServiceInv, StacksTyped
<1>2. isr' = {}
  BY <1>1 DEF ServiceInv, TopInService, AtWork
<1>3. /\ stack' \in [Tid -> Seq(Frame)]
      /\ \A t \in Tid : \A k \in 1..(Len(stack'[t]) - 1) : stack'[t][k].at = "ret"
      /\ \A t \in Tid : stack'[t] # <<>> => stack'[t][Len(stack'[t])].at # "work"
      /\ stack'[running][Len(stack'[running])].at = "ret"
  BY <1>1, TopGoesOn
<1> QED
  BY <1>1, <1>2, <1>3 DEF ServiceInv, StacksTyped, BelowTopReturning, NoneAtWorkElsewhere,
     OnlyReturningIfOn, TopInService, AtWork, Top, Depth

(* A handler returns to one that was interrupted after its sti. *)
LEMMA IretKeeps ==
  ASSUME ServiceInv, Iret
  PROVE  ServiceInv'
<1> DEFINE n == Len(stack[running])
           u == SubSeq(stack[running], 1, n - 1)
<1>1. /\ running' = running /\ running \in Tid /\ if' = TRUE /\ isr' = isr
      /\ stack[running] # <<>> /\ Top(running).at = "ret"
      /\ stack' = [stack EXCEPT ![running] = u]
      /\ stack \in [Tid -> Seq(Frame)] /\ stack[running] \in Seq(Frame)
  BY DEF Iret, Depth, ServiceInv, StacksTyped
<1>2. isr' = {}
  BY <1>1 DEF ServiceInv, TopInService, AtWork
<1>3. /\ n \in Nat \ {0} /\ u \in Seq(Frame) /\ Len(u) = n - 1
      /\ \A k \in 1..(n - 1) : u[k] = stack[running][k]
  <2>1. n \in Nat \ {0}
    BY <1>1
  <2>2. \A k \in 1..(n - 1) : 1 + k - 1 = k
    BY <2>1
  <2>3. /\ u \in Seq(Frame)
        /\ Len(u) = IF 1 <= n - 1 THEN n - 1 - 1 + 1 ELSE 0
        /\ \A k \in 1..(n - 1 - 1 + 1) : u[k] = stack[running][1 + k - 1]
    BY <1>1, <2>1
  <2> HIDE DEF u, n
  <2> QED
    BY <2>1, <2>2, <2>3
<1>4. \A k \in 1..(n - 1) : u[k].at = "ret"
  BY <1>1, <1>3 DEF ServiceInv, BelowTopReturning
<1>5. u # <<>> => u[Len(u)].at = "ret"
  BY <1>3, <1>4
<1>6. \A k \in 1..(Len(u) - 1) : u[k].at = "ret"
  BY <1>3, <1>4
<1> HIDE DEF u, n
<1>7. stack'[running] = u /\ \A t \in Tid \ {running} : stack'[t] = stack[t]
  BY <1>1
<1>8. StacksTyped'
  BY <1>1, <1>3 DEF StacksTyped
<1>9. BelowTopReturning'
  BY <1>6, <1>7 DEF ServiceInv, BelowTopReturning
<1>10. NoneAtWorkElsewhere'
  BY <1>1, <1>7 DEF ServiceInv, NoneAtWorkElsewhere, Top, Depth
<1>11. OnlyReturningIfOn' /\ TopInService'
  BY <1>1, <1>2, <1>5, <1>7 DEF OnlyReturningIfOn, TopInService, AtWork, Top, Depth
<1> QED
  BY <1>8, <1>9, <1>10, <1>11 DEF ServiceInv

(* Every step of the devices, the handlers and the programs keeps ServiceInv. *)
LEMMA StepServiceInv == ServiceInv /\ [IntNext]_intVars => ServiceInv'
<1> SUFFICES ASSUME ServiceInv, [IntNext]_intVars PROVE ServiceInv'
  OBVIOUS
<1>0. if \in BOOLEAN
  BY DEF ServiceInv, StacksTyped
<1>1. ASSUME NEW device \in Device, Request(device) PROVE ServiceInv'
  BY <1>0, <1>1, StacksKept DEF Request
<1>2. ASSUME NEW device \in Device, Accept(device) PROVE ServiceInv'
  BY <1>2, AcceptKeeps
<1>3. CASE Keyboard
  <2>1. "keyboard_entry" \in Handler /\ IrqOf("keyboard_entry") = KEYBOARD_IRQ
    BY DEF Handler, IrqOf
  <2> QED
    BY <1>3, <2>1, DeviceKeeps DEF Keyboard
<1>4. CASE Rtc
  <2>1. "rtc_entry" \in Handler /\ IrqOf("rtc_entry") = RTC_IRQ
    BY DEF Handler, IrqOf
  <2> QED
    BY <1>4, <2>1, DeviceKeeps DEF Rtc
<1>5. CASE pit_int_handler
  BY <1>5, TimerKeeps
<1>6. CASE PitResumes
  BY <1>6, ResumeKeeps
<1>7. CASE Iret
  BY <1>7, IretKeeps
<1>8. CASE SyscallEntry
  BY <1>0, <1>8, StacksKept, Zenon DEF SyscallEntry
<1>9. CASE ReadSti
  BY <1>0, <1>9, StacksKept DEF ReadSti
<1>10. CASE SyscallReturn
  BY <1>0, <1>10, StacksKept DEF SyscallReturn
<1>11. CASE UNCHANGED intVars
  BY <1>0, <1>11, StacksKept DEF intVars
<1> QED
  BY <1>1, <1>2, <1>3, <1>4, <1>5, <1>6, <1>7, <1>8, <1>9, <1>10, <1>11 DEF IntNext

(* With one handler at work, its lines are all that the handlers' are. *)
LEMMA ServiceInvExact == ServiceInv => InServiceExact
<1> SUFFICES ASSUME ServiceInv PROVE InServiceExact
  OBVIOUS
<1> DEFINE n == Depth(running)
           W == {j \in 1..n : stack[running][j].at = "work"}
<1>1. /\ running \in Tid /\ stack[running] \in Seq(Frame) /\ n \in Nat
      /\ (stack[running] # <<>> <=> n # 0)
  BY DEF ServiceInv, StacksTyped, Depth
<1>2. W = IF AtWork THEN {n} ELSE {}
  <2>1. \A j \in 1..(n - 1) : stack[running][j].at # "work"
    BY <1>1 DEF ServiceInv, BelowTopReturning, Depth
  <2>2. AtWork <=> n # 0 /\ stack[running][n].at = "work"
    BY <1>1 DEF AtWork, Top
  <2> HIDE DEF n
  <2> QED
    BY <1>1, <2>1, <2>2
<1>3. AtWork => Top(running) = stack[running][n]
  BY DEF Top
<1> HIDE DEF n, W
<1>4. isr = UNION {Occupies(IrqOf(stack[running][k].handler)) : k \in W}
  BY <1>2, <1>3 DEF ServiceInv, TopInService
<1> QED
  BY <1>4 DEF InServiceExact, W, n

(***************************************************************************)
(* For any number of terminals and any depth of nesting, a line is in      *)
(* service exactly while its handler is at work: no end-of-interrupt of    *)
(* send_eoi is lost or goes to another line.                               *)
(***************************************************************************)
THEOREM LinesInService == IntSpec => []InServiceExact
  BY InitServiceInv, StepServiceInv, ServiceInvExact, PTL DEF IntSpec
=============================================================================
