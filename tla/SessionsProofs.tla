--------------------------- MODULE SessionsProofs ----------------------------
(***************************************************************************)
(* The processes implement Sessions, for every number of pids and of       *)
(* terminals.                                                              *)
(*                                                                         *)
(* The links are shown to be threads: one sequence of pids per terminal,   *)
(* without a pid in common, whose members are each other's parents.        *)
(* Execute, halt and schedule replace one thread at a time.                *)
(***************************************************************************)
EXTENDS ProcessProofs, ProcessSessions

(* Threads *)

(* The programs q, each started by the one before it, p the last of them. *)
Thread(parent, q, p) ==
  /\ Len(q) = 0 => p = None
  /\ Len(q) # 0 => p = q[Len(q)] /\ parent[q[1]] = None
  /\ \A i \in 2..Len(q) : parent[q[i]] = q[i - 1]

In(q, p) == \E i \in 1..Len(q) : q[i] = p

(* One thread per terminal, disjoint, of all the processes there are. *)
Stacked(parent, leaf, bitmap, s) ==
  /\ s \in [Tid -> Seq(Pid)]
  /\ \A t \in Tid : Thread(parent, s[t], leaf[t])
  /\ \A t, u \in Tid : \A i \in 1..Len(s[t]), j \in 1..Len(s[u]) :
       s[t][i] = s[u][j] => t = u /\ i = j
  /\ \A p : p \in bitmap <=> \E t \in Tid : In(s[t], p)

(* What has to hold for q to replace the thread of terminal t. *)
Replaces(parent, leaf, bitmap, s, t, q, parent2, leaf2, bitmap2) ==
  /\ q \in Seq(Pid)
  /\ \A i, j \in 1..Len(q) : q[i] = q[j] => i = j
  /\ Thread(parent2, q, leaf2[t])
  /\ \A u \in Tid : u # t => leaf2[u] = leaf[u]
  /\ \A u \in Tid : u # t => \A i \in 1..Len(s[u]) :
       parent2[s[u][i]] = parent[s[u][i]] /\ ~ In(q, s[u][i])
  /\ \A p : p \in bitmap2 <=> (p \in bitmap /\ ~ In(s[t], p)) \/ In(q, p)

LEMMA Restack ==
  ASSUME NEW parent, NEW leaf, NEW bitmap, NEW s, NEW t \in Tid,
         NEW parent2, NEW leaf2, NEW bitmap2, NEW q,
         Stacked(parent, leaf, bitmap, s),
         Replaces(parent, leaf, bitmap, s, t, q, parent2, leaf2, bitmap2)
  PROVE  Stacked(parent2, leaf2, bitmap2, [s EXCEPT ![t] = q])
<1>0. /\ q \in Seq(Pid)
      /\ \A i, j \in 1..Len(q) : q[i] = q[j] => i = j
      /\ Thread(parent2, q, leaf2[t])
      /\ \A u \in Tid : u # t => leaf2[u] = leaf[u]
      /\ \A u \in Tid : u # t => \A i \in 1..Len(s[u]) :
           parent2[s[u][i]] = parent[s[u][i]] /\ ~ In(q, s[u][i])
      /\ \A p : p \in bitmap2 <=> (p \in bitmap /\ ~ In(s[t], p)) \/ In(q, p)
  BY DEF Replaces
<1> USE <1>0
<1> DEFINE r == [s EXCEPT ![t] = q]
<1>1. s \in [Tid -> Seq(Pid)]
  BY DEF Stacked
<1>2. r \in [Tid -> Seq(Pid)] /\ \A u \in Tid : r[u] = IF u = t THEN q ELSE s[u]
  BY <1>1
<1>3. r[t] = q /\ \A u \in Tid : u # t => r[u] = s[u]
  BY <1>2
<1> HIDE DEF r
<1>4. ASSUME NEW u \in Tid PROVE Thread(parent2, r[u], leaf2[u])
  <2>1. CASE u = t
    BY <1>3, <2>1
  <2>2. CASE u # t
    <3>1. r[u] = s[u] /\ leaf2[u] = leaf[u] /\ Thread(parent, s[u], leaf[u]) /\ Len(s[u]) \in Nat
      BY <1>1, <1>3, <2>2 DEF Stacked
    <3>2. \A i \in 1..Len(s[u]) : parent2[s[u][i]] = parent[s[u][i]]
      BY <2>2
    <3> QED  BY <3>1, <3>2 DEF Thread
  <2> QED  BY <2>1, <2>2
<1>5. ASSUME NEW u \in Tid, NEW v \in Tid, NEW i \in 1..Len(r[u]), NEW j \in 1..Len(r[v]),
             r[u][i] = r[v][j]
      PROVE  u = v /\ i = j
  <2>1. CASE u = t /\ v = t
    BY <1>3, <1>5, <2>1
  <2>2. CASE u = t /\ v # t
    <3>1. r[u] = q /\ r[v] = s[v]
      BY <1>3, <2>2
    <3> QED  BY <1>5, <2>2, <3>1 DEF In
  <2>3. CASE u # t /\ v = t
    <3>1. r[v] = q /\ r[u] = s[u]
      BY <1>3, <2>3
    <3>2. q[j] = s[u][i] /\ j \in 1..Len(q) /\ i \in 1..Len(s[u])
      BY <1>5, <3>1
    <3> QED  BY <2>3, <3>2 DEF In
  <2>4. CASE u # t /\ v # t
    <3>1. r[u] = s[u] /\ r[v] = s[v]
      BY <1>3, <2>4
    <3> QED  BY <1>5, <3>1 DEF Stacked
  <2> QED  BY <2>1, <2>2, <2>3, <2>4
<1>6. ASSUME NEW p PROVE p \in bitmap2 <=> \E u \in Tid : In(r[u], p)
  <2>1. ASSUME p \in bitmap2 PROVE \E u \in Tid : In(r[u], p)
    <3>1. CASE In(q, p)
      BY <1>3, <3>1
    <3>2. CASE ~ In(q, p)
      <4>1. p \in bitmap /\ ~ In(s[t], p)
        BY <2>1, <3>2
      <4>2. PICK u \in Tid : In(s[u], p)
        BY <4>1 DEF Stacked
      <4>3. r[u] = s[u]
        BY <1>3, <4>1, <4>2
      <4> QED  BY <4>2, <4>3
    <3> QED  BY <3>1, <3>2
  <2>2. ASSUME NEW u \in Tid, In(r[u], p) PROVE p \in bitmap2
    <3>1. CASE u = t
      BY <1>3, <2>2, <3>1
    <3>2. CASE u # t
      <4>1. In(s[u], p)
        BY <1>3, <2>2, <3>2
      <4>2. p \in bitmap
        BY <4>1 DEF Stacked
      <4>3. ~ In(s[t], p)
        BY <3>2, <4>1 DEF Stacked, In
      <4> QED  BY <4>2, <4>3
    <3> QED  BY <3>1, <3>2
  <2> QED  BY <2>1, <2>2
<1>7. Stacked(parent2, leaf2, bitmap2, r)
  BY <1>2, <1>4, <1>5, <1>6 DEF Stacked
<1> QED
  BY <1>7 DEF r

(* A program starts above the top one of terminal t, *)
LEMMA Pushed ==
  ASSUME NEW parent \in [Pid -> Pid \cup {None}], NEW leaf, NEW bitmap, NEW s,
         Stacked(parent, leaf, bitmap, s),
         NEW t \in Tid, Len(s[t]) # 0, NEW new \in Pid, new \notin bitmap,
         NEW leaf2, leaf2[t] = new, \A u \in Tid : u # t => leaf2[u] = leaf[u]
  PROVE  Stacked([parent EXCEPT ![new] = leaf[t]], leaf2, bitmap \cup {new},
                 [s EXCEPT ![t] = Append(s[t], new)])
<1> DEFINE q == Append(s[t], new)
           n == Len(s[t])
           parent2 == [parent EXCEPT ![new] = leaf[t]]
<1>1. s[t] \in Seq(Pid) /\ n \in Nat /\ n # 0
  BY DEF Stacked
<1>2. /\ q \in Seq(Pid) /\ Len(q) = n + 1 /\ q[n + 1] = new
      /\ \A i \in 1..n : q[i] = s[t][i]
  BY <1>1
<1>3. \A u \in Tid : \A i \in 1..Len(s[u]) :
        s[u][i] \in bitmap /\ s[u][i] # new /\ s[u][i] \in Pid
  BY DEF Stacked, In
<1>4. parent2[new] = leaf[t] /\ \A p \in Pid : p # new => parent2[p] = parent[p]
  OBVIOUS
<1>5. Thread(parent, s[t], leaf[t])
  BY DEF Stacked
<1> HIDE DEF q, n, parent2
<1>6. Thread(parent2, q, new)
  <2>1. q[1] = s[t][1] /\ parent2[q[1]] = None
    <3>1. 1 \in 1..n
      BY <1>1
    <3>2. parent[s[t][1]] = None
      BY <1>1, <1>5 DEF Thread, n
    <3> QED  BY <1>2, <1>3, <1>4, <3>1, <3>2 DEF n
  <2>2. ASSUME NEW i \in 2..(n + 1) PROVE parent2[q[i]] = q[i - 1]
    <3>1. CASE i = n + 1
      <4>1. q[i] = new /\ q[i - 1] = s[t][n] /\ n \in 1..n /\ i - 1 = n
        BY <1>1, <1>2, <3>1
      <4>2. leaf[t] = s[t][n]
        BY <1>1, <1>5 DEF Thread, n
      <4> QED  BY <1>4, <4>1, <4>2
    <3>2. CASE i # n + 1
      <4>1. i \in 2..n /\ i \in 1..n /\ i - 1 \in 1..n
        BY <1>1, <3>2
      <4>2. q[i] = s[t][i] /\ q[i - 1] = s[t][i - 1]
        BY <1>2, <4>1
      <4>3. parent[s[t][i]] = s[t][i - 1]
        BY <1>1, <1>5, <4>1 DEF Thread, n
      <4>4. s[t][i] \in Pid /\ s[t][i] # new
        BY <1>3, <4>1 DEF n
      <4> QED  BY <1>4, <4>2, <4>3, <4>4
    <3> QED  BY <3>1, <3>2
  <2> QED  BY <1>1, <1>2, <2>1, <2>2 DEF Thread
<1>7. ASSUME NEW i \in 1..Len(q), NEW j \in 1..Len(q), q[i] = q[j] PROVE i = j
  <2>1. CASE i # n + 1 /\ j # n + 1
    <3>1. i \in 1..n /\ j \in 1..n
      BY <1>1, <1>2, <2>1
    <3>2. s[t][i] = s[t][j]
      BY <1>2, <1>7, <3>1
    <3> QED  BY <3>1, <3>2 DEF Stacked, n
  <2>2. CASE i = n + 1 /\ j # n + 1
    <3>1. j \in 1..n
      BY <1>1, <1>2, <2>2
    <3> QED  BY <1>2, <1>3, <1>7, <2>2, <3>1 DEF n
  <2>3. CASE i # n + 1 /\ j = n + 1
    <3>1. i \in 1..n
      BY <1>1, <1>2, <2>3
    <3> QED  BY <1>2, <1>3, <1>7, <2>3, <3>1 DEF n
  <2> QED  BY <2>1, <2>2, <2>3
<1>8. ASSUME NEW p PROVE In(q, p) <=> In(s[t], p) \/ p = new
  <2>1. ASSUME In(q, p) PROVE In(s[t], p) \/ p = new
    <3>1. PICK i \in 1..Len(q) : q[i] = p
      BY <2>1 DEF In
    <3>2. i = n + 1 \/ i \in 1..n
      BY <1>1, <1>2
    <3> QED  BY <1>2, <3>1, <3>2 DEF In, n
  <2>2. ASSUME In(s[t], p) PROVE In(q, p)
    <3>1. PICK i \in 1..n : s[t][i] = p
      BY <2>2 DEF In, n
    <3>2. i \in 1..Len(q) /\ q[i] = p
      BY <1>1, <1>2, <3>1
    <3> QED  BY <3>2 DEF In
  <2>3. In(q, new)
    BY <1>1, <1>2 DEF In
  <2> QED  BY <2>1, <2>2, <2>3
<1>9. \A u \in Tid : u # t => \A i \in 1..Len(s[u]) :
        parent2[s[u][i]] = parent[s[u][i]] /\ ~ In(q, s[u][i])
  <2>1. \A u \in Tid : u # t => \A i \in 1..Len(s[u]) : ~ In(s[t], s[u][i])
    BY DEF Stacked, In
  <2> QED  BY <1>3, <1>4, <1>8, <2>1
<1>10. \A p : p \in bitmap \cup {new} <=> (p \in bitmap /\ ~ In(s[t], p)) \/ In(q, p)
  <2>1. \A p : In(s[t], p) => p \in bitmap
    BY DEF Stacked
  <2> QED  BY <1>8, <2>1
<1>11. Thread(parent2, q, leaf2[t])
  BY <1>6
<1>12. Stacked(parent2, leaf2, bitmap \cup {new}, [s EXCEPT ![t] = q])
  <2>1. Replaces(parent, leaf, bitmap, s, t, q, parent2, leaf2, bitmap \cup {new})
    BY <1>2, <1>7, <1>9, <1>10, <1>11 DEF Replaces
  <2> QED  BY <2>1, Restack
<1> QED
  BY <1>12 DEF q, parent2

(* terminal t gets a base shell, where it has one or none, *)
LEMMA Based ==
  ASSUME NEW parent \in [Pid -> Pid \cup {None}], NEW leaf, NEW bitmap, NEW s,
         Stacked(parent, leaf, bitmap, s),
         NEW t \in Tid, Len(s[t]) \in 0..1,
         NEW new \in Pid, new \in bitmap => In(s[t], new),
         NEW leaf2, leaf2[t] = new, \A u \in Tid : u # t => leaf2[u] = leaf[u],
         NEW bitmap2, \A p : p \in bitmap2 <=> (p \in bitmap /\ ~ In(s[t], p)) \/ p = new
  PROVE  Stacked([parent EXCEPT ![new] = None], leaf2, bitmap2, [s EXCEPT ![t] = <<new>>])
<1> DEFINE q == <<new>>
           parent2 == [parent EXCEPT ![new] = None]
<1>1. q \in Seq(Pid) /\ Len(q) = 1 /\ q[1] = new
  OBVIOUS
<1>2. parent2[new] = None /\ \A p \in Pid : p # new => parent2[p] = parent[p]
  OBVIOUS
<1> HIDE DEF q, parent2
<1>3. Thread(parent2, q, new)
  BY <1>1, <1>2 DEF Thread
<1>4. \A p : In(q, p) <=> p = new
  BY <1>1 DEF In
<1>5. ASSUME NEW u \in Tid, u # t, NEW i \in 1..Len(s[u])
      PROVE  parent2[s[u][i]] = parent[s[u][i]] /\ ~ In(q, s[u][i])
  <2>1. s[u][i] \in Pid /\ s[u][i] \in bitmap
    BY DEF Stacked, In
  <2>2. ~ In(s[t], s[u][i])
    BY <1>5 DEF Stacked, In
  <2> QED  BY <1>2, <1>4, <2>1, <2>2
<1>6. \A i, j \in 1..Len(q) : q[i] = q[j] => i = j
  BY <1>1
<1>7. Thread(parent2, q, leaf2[t])
  BY <1>3
<1>8. \A p : p \in bitmap2 <=> (p \in bitmap /\ ~ In(s[t], p)) \/ In(q, p)
  BY <1>4
<1>9. Stacked(parent2, leaf2, bitmap2, [s EXCEPT ![t] = q])
  <2>1. Replaces(parent, leaf, bitmap, s, t, q, parent2, leaf2, bitmap2)
    BY <1>1, <1>5, <1>6, <1>7, <1>8 DEF Replaces
  <2> QED  BY <2>1, Restack
<1> QED
  BY <1>9 DEF q, parent2

Moves(leaf, leaf2, t, top) ==
  leaf2[t] = top /\ \A u \in Tid : u # t => leaf2[u] = leaf[u]

HasBelow(q) == Len(q) # 0 /\ Len(q) # 1

WithoutTop(q) == SubSeq(q, 1, Len(q) - 1)

(* and the top program of terminal t ends. *)
LEMMA Popped ==
  ASSUME NEW parent, NEW leaf, NEW bitmap, NEW s, Stacked(parent, leaf, bitmap, s),
         NEW t \in Tid, HasBelow(s[t]),
         NEW leaf2, Moves(leaf, leaf2, t, parent[leaf[t]])
  PROVE  Stacked(parent, leaf2, bitmap \ {leaf[t]},
                 [s EXCEPT ![t] = WithoutTop(s[t])])
<1> DEFINE n == Len(s[t])
           q == SubSeq(s[t], 1, n - 1)
<1>0. s[t] \in Seq(Pid) /\ n \in Nat /\ n # 0 /\ n # 1
  BY DEF Stacked, HasBelow
<1> USE DEF Moves
<1> HIDE DEF n
<1>1. s[t] \in Seq(Pid) /\ n \in Nat /\ n > 1
  BY <1>0
<1>2. q \in Seq(Pid) /\ Len(q) = n - 1 /\ \A i \in 1..(n - 1) : q[i] = s[t][i]
  BY <1>1 DEF n
<1>3. Thread(parent, s[t], leaf[t])
  BY DEF Stacked
<1> HIDE DEF q, n
<1>4. leaf[t] = s[t][n] /\ parent[s[t][1]] = None /\ \A i \in 2..n : parent[s[t][i]] = s[t][i - 1]
  BY <1>1, <1>3 DEF Thread, n
<1>5. Thread(parent, q, leaf2[t])
  <2>1. leaf2[t] = s[t][n - 1] /\ s[t][n - 1] = q[n - 1]
    BY <1>1, <1>2, <1>4
  <2>2. ASSUME NEW i \in 2..(n - 1) PROVE parent[q[i]] = q[i - 1]
    <3>1. i \in 1..(n - 1) /\ i - 1 \in 1..(n - 1) /\ i \in 2..n
      BY <1>1
    <3>2. q[i] = s[t][i] /\ q[i - 1] = s[t][i - 1]
      BY <1>2, <3>1
    <3> QED  BY <1>4, <3>1, <3>2
  <2>3. parent[q[1]] = None
    BY <1>1, <1>2, <1>4
  <2> QED  BY <1>1, <1>2, <2>1, <2>2, <2>3 DEF Thread
<1>6. \A i, j \in 1..n : s[t][i] = s[t][j] => i = j
  BY DEF Stacked, n
<1>7. \A i, j \in 1..Len(q) : q[i] = q[j] => i = j
  BY <1>1, <1>2, <1>6
<1>8. ASSUME NEW p PROVE In(q, p) <=> In(s[t], p) /\ p # leaf[t]
  <2>1. ASSUME In(q, p) PROVE In(s[t], p) /\ p # leaf[t]
    <3>1. PICK i \in 1..Len(q) : q[i] = p
      BY <2>1 DEF In
    <3>2. i \in 1..n /\ i # n /\ n \in 1..n /\ s[t][i] = p
      BY <1>1, <1>2, <3>1
    <3> QED  BY <1>4, <1>6, <3>2 DEF In, n
  <2>2. ASSUME In(s[t], p), p # leaf[t] PROVE In(q, p)
    <3>1. PICK i \in 1..n : s[t][i] = p
      BY <2>2 DEF In, n
    <3>2. i \in 1..(n - 1)
      BY <1>1, <1>4, <2>2, <3>1
    <3> QED  BY <1>2, <3>1, <3>2 DEF In
  <2> QED  BY <2>1, <2>2
<1>9. \A u \in Tid : u # t => \A i \in 1..Len(s[u]) : ~ In(q, s[u][i])
  <2>1. \A u \in Tid : u # t => \A i \in 1..Len(s[u]) : ~ In(s[t], s[u][i])
    BY DEF Stacked, In
  <2> QED  BY <1>8, <2>1
<1>10. \A p : p \in bitmap \ {leaf[t]} <=> (p \in bitmap /\ ~ In(s[t], p)) \/ In(q, p)
  <2>1. \A p : In(s[t], p) => p \in bitmap
    BY DEF Stacked
  <2>2. In(s[t], leaf[t])
    BY <1>1, <1>4 DEF In, n
  <2> QED  BY <1>8, <2>1, <2>2
<1>11. Stacked(parent, leaf2, bitmap \ {leaf[t]}, [s EXCEPT ![t] = q])
  <2>1. Replaces(parent, leaf, bitmap, s, t, q, parent, leaf2, bitmap \ {leaf[t]})
    BY <1>2, <1>5, <1>7, <1>9, <1>10 DEF Replaces
  <2> QED  BY <2>1, Restack
<1> QED
  BY <1>11 DEF q, n, WithoutTop

(* The end of a thread and its length. *)
LEMMA Top ==
  ASSUME NEW parent, NEW leaf, NEW bitmap, NEW s, Stacked(parent, leaf, bitmap, s),
         NEW t \in Tid
  PROVE  /\ s[t] \in Seq(Pid) /\ Len(s[t]) \in Nat
         /\ Len(s[t]) = 0 <=> leaf[t] = None
         /\ Len(s[t]) # 0 => leaf[t] = s[t][Len(s[t])]
         /\ Len(s[t]) # 0 => (parent[leaf[t]] = None <=> Len(s[t]) = 1)
         /\ leaf[t] # None /\ parent[leaf[t]] # None => HasBelow(s[t]) /\ Len(s[t]) > 1
<1> DEFINE q == s[t]
           n == Len(q)
<1>1. q \in Seq(Pid) /\ n \in Nat /\ Thread(parent, q, leaf[t])
  BY DEF Stacked
<1>2. \A i \in 1..n : q[i] \in Pid /\ q[i] # None
  BY <1>1, PidFacts
<1> HIDE DEF q, n
<1>3. n # 0 => leaf[t] = q[n] /\ leaf[t] # None /\ parent[q[1]] = None
  BY <1>1, <1>2 DEF Thread, n
<1>4. n > 1 => parent[q[n]] # None
  <2>1. SUFFICES ASSUME n > 1 PROVE parent[q[n]] # None
    OBVIOUS
  <2>2. n \in 2..n /\ n - 1 \in 1..n
    BY <1>1, <2>1
  <2>3. parent[q[n]] = q[n - 1]
    BY <1>1, <2>2 DEF Thread, n
  <2> QED  BY <1>2, <2>2, <2>3
<1>5. n = 0 => leaf[t] = None
  BY <1>1 DEF Thread, n
<1>6. n # 0 => (parent[leaf[t]] = None <=> n = 1)
  <2>1. n = 0 \/ n = 1 \/ n > 1
    BY <1>1
  <2>2. n = 1 => parent[leaf[t]] = None
    BY <1>3
  <2>3. n > 1 => parent[leaf[t]] # None /\ n # 1
    BY <1>1, <1>3, <1>4
  <2> QED  BY <2>1, <2>2, <2>3
<1>7. n = 0 <=> leaf[t] = None
  BY <1>3, <1>5
<1>8. leaf[t] # None /\ parent[leaf[t]] # None => n # 0 /\ n # 1
  BY <1>6, <1>7
<1>9. n # 0 /\ n # 1 => n > 1
  BY <1>1
<1>10. n # 0 /\ n # 1 => HasBelow(q)
  BY Zenon DEF HasBelow, n
<1> QED
  BY <1>1, <1>3, <1>6, <1>7, <1>8, <1>9, <1>10 DEF n, q

-----------------------------------------------------------------------------
(* Reading the links *)

INSTANCE SequenceTheorems
INSTANCE FiniteSetTheorems

(* One round of the recursion that Chain makes. *)
Links(parent, below) ==
  [q \in Pid \cup {None} |-> IF q = None THEN <<>> ELSE Append(below[parent[q]], q)]

NoLinks == [q \in Pid \cup {None} |-> <<>>]

(* There are rounds up to any number of them. *)
LEMMA LinksExist ==
  ASSUME NEW parent, NEW m \in Nat
  PROVE  \E g : g = [n \in 0..m |-> IF n = 0 THEN NoLinks ELSE Links(parent, g[n - 1])]
<1> DEFINE Body(g, k) == [n \in 0..k |-> IF n = 0 THEN NoLinks ELSE Links(parent, g[n - 1])]
           R == {e \in Nat \X Nat : e[1] < e[2]}
           Bad == {k \in Nat : ~ \E g : g = Body(g, k)}
<1>1. SUFFICES ASSUME Bad # {} PROVE FALSE
  BY Zenon
<1>2. IsWellFoundedOn(R, Nat)
  BY NatLessThanWellFounded DEF OpToRel
<1>3. Bad \subseteq Nat
  OBVIOUS
<1>4. PICK k \in Bad : \A j \in Bad : ~(<<j, k>> \in R)
  <2> HIDE DEF R, Bad
  <2> QED  BY <1>1, <1>2, <1>3, WFMin, Zenon
<1>5. k \in Nat /\ ~ \E g : g = Body(g, k)
  BY <1>4
<1>6. CASE k = 0
  <2> DEFINE g == [n \in 0..0 |-> NoLinks]
  <2>1. g = Body(g, 0)
    OBVIOUS
  <2> QED  BY <1>5, <1>6, <2>1, Zenon
<1>7. CASE k # 0
  <2>1. k - 1 \in Nat /\ <<k - 1, k>> \in R
    BY <1>5, <1>7
  <2>2. PICK g : g = Body(g, k - 1)
    BY <1>4, <2>1
  <2> DEFINE h == [n \in 0..k |-> IF n = k THEN Links(parent, g[k - 1]) ELSE g[n]]
  <2>3. \A n \in 0..(k - 1) : g[n] = IF n = 0 THEN NoLinks ELSE Links(parent, g[n - 1])
    BY <2>2, <2>1
  <2>4. ASSUME NEW n \in 0..k
        PROVE  h[n] = IF n = 0 THEN NoLinks ELSE Links(parent, h[n - 1])
    <3>1. CASE n = 0
      <4>1. h[n] = g[0] /\ 0 \in 0..(k - 1)
        BY <1>5, <1>7, <3>1
      <4> QED  BY <2>3, <3>1, <4>1
    <3>2. CASE n # 0
      <4>1. n - 1 \in 0..(k - 1) /\ n - 1 \in 0..k /\ n - 1 # k
        BY <1>5, <3>2
      <4>2. h[n - 1] = g[n - 1]
        BY <4>1
      <4>3. h[n] = Links(parent, g[n - 1])
        <5>1. CASE n = k
          BY <5>1
        <5>2. CASE n # k
          <6>1. n \in 0..(k - 1) /\ h[n] = g[n]
            BY <1>5, <5>2
          <6> HIDE DEF h
          <6> QED  BY <2>3, <3>2, <6>1
        <5> QED  BY <5>1, <5>2
      <4> QED  BY <3>2, <4>2, <4>3
    <3> QED  BY <3>1, <3>2
  <2>5. h = [n \in 0..k |-> h[n]]
    OBVIOUS
  <2> HIDE DEF h
  <2>6. h = Body(h, k)
    BY <2>4, <2>5, Zenon
  <2> QED  BY <1>5, <2>6
<1> QED
  BY <1>6, <1>7

(* What Chain computes, round by round. *)
LEMMA ChainRounds ==
  ASSUME NEW parent
  PROVE  \E C : /\ \A p : Chain(parent, p) = C[MAX_NUM_PROCESS][p]
                /\ C[0] = NoLinks
                /\ \A n \in 1..MAX_NUM_PROCESS : C[n] = Links(parent, C[n - 1])
<1> DEFINE Round(g) == [n \in 0..MAX_NUM_PROCESS |->
                         [q \in Pid \cup {None} |->
                           IF n = 0 \/ q = None THEN <<>> ELSE Append(g[n - 1][parent[q]], q)]]
           C == CHOOSE g : g = Round(g)
<1>1. MAX_NUM_PROCESS \in Nat \ {0}
  BY ProcessAssumption
<1>2. \A p : Chain(parent, p) = C[MAX_NUM_PROCESS][p]
  BY DEF Chain
<1>3. PICK g : g = [n \in 0..MAX_NUM_PROCESS |->
                     IF n = 0 THEN NoLinks ELSE Links(parent, g[n - 1])]
  BY <1>1, LinksExist, Zenon
<1>4. ASSUME NEW f, NEW n \in 0..MAX_NUM_PROCESS
      PROVE  Round(f)[n] = IF n = 0 THEN NoLinks ELSE Links(parent, f[n - 1])
  <2>1. CASE n = 0
    BY <2>1 DEF NoLinks
  <2>2. CASE n # 0
    BY <2>2 DEF Links
  <2> QED  BY <2>1, <2>2
<1>5. \A f : Round(f) = [n \in 0..MAX_NUM_PROCESS |-> Round(f)[n]]
  OBVIOUS
<1>6. g = Round(g)
  <2> HIDE DEF Round
  <2> QED  BY <1>3, <1>4, <1>5, Zenon
<1>7. C = Round(C)
  <2> HIDE DEF Round
  <2> QED  BY <1>6, Zenon
<1> HIDE DEF C, Round
<1>8. \A n \in 0..MAX_NUM_PROCESS : C[n] = IF n = 0 THEN NoLinks ELSE Links(parent, C[n - 1])
  BY <1>4, <1>7
<1>9. C[0] = NoLinks /\ \A n \in 1..MAX_NUM_PROCESS : C[n] = Links(parent, C[n - 1])
  <2>1. 0 \in 0..MAX_NUM_PROCESS /\ \A n \in 1..MAX_NUM_PROCESS : n \in 0..MAX_NUM_PROCESS /\ n # 0
    BY <1>1
  <2> QED  BY <1>8, <2>1
<1> QED
  BY <1>2, <1>9

(* Chain reads a thread off the links, whatever else the links say. *)
LEMMA ChainIs ==
  ASSUME NEW parent, NEW q \in Seq(Pid), Len(q) <= MAX_NUM_PROCESS, NEW p, Thread(parent, q, p)
  PROVE  Chain(parent, p) = q
<1>1. PICK C : /\ \A r : Chain(parent, r) = C[MAX_NUM_PROCESS][r]
               /\ C[0] = NoLinks
               /\ \A n \in 1..MAX_NUM_PROCESS : C[n] = Links(parent, C[n - 1])
  BY ChainRounds, Zenon
<1>2. PICK M \in Nat, N \in Nat : M = MAX_NUM_PROCESS /\ N = Len(q) /\ N <= M
  BY ProcessAssumption
<1> DEFINE Last(i) == IF i = 0 THEN None ELSE q[i]
           Right(i) == \A n \in i..M : C[n][Last(i)] = SubSeq(q, 1, i)
           R == {e \in Nat \X Nat : e[1] < e[2]}
           Bad == {i \in 0..N : ~ Right(i)}
<1>3. \A i \in 1..N : q[i] \in Pid /\ q[i] # None
  BY <1>2, PidFacts
<1>4. ASSUME NEW i \in 0..N
      PROVE  /\ SubSeq(q, 1, i) \in Seq(Pid) /\ Len(SubSeq(q, 1, i)) = i
             /\ \A j \in 1..i : SubSeq(q, 1, i)[j] = q[j]
  BY <1>2, <1>3, SubSeqProperties
<1>5. ASSUME Bad # {} PROVE FALSE
  <2>1. IsWellFoundedOn(R, Nat)
    BY NatLessThanWellFounded DEF OpToRel
  <2>2. Bad \subseteq Nat
    OBVIOUS
  <2>3. PICK k \in Bad : \A j \in Bad : ~(<<j, k>> \in R)
    <3> HIDE DEF R, Bad
    <3> QED  BY <1>5, <2>1, <2>2, WFMin, Zenon
  <2>4. k \in 0..N /\ ~ Right(k)
    BY <2>3
  <2>5. PICK n \in k..M : C[n][Last(k)] # SubSeq(q, 1, k)
    BY <2>4
  <2>6. CASE k = 0
    <3>1. Last(k) = None /\ SubSeq(q, 1, k) = <<>>
      BY <1>4, <2>4, <2>6, EmptySeq
    <3>2. C[n][None] = <<>>
      <4>1. CASE n = 0
        BY <1>1, <4>1 DEF NoLinks
      <4>2. CASE n # 0
        <5>1. n \in 1..MAX_NUM_PROCESS
          BY <1>2, <2>4, <4>2
        <5> QED  BY <1>1, <5>1, Zenon DEF Links
      <4> QED  BY <4>1, <4>2
    <3> QED  BY <2>5, <3>1, <3>2, Zenon
  <2>7. CASE k # 0
    <3>1. k - 1 \in 0..N /\ <<k - 1, k>> \in R /\ k \in 1..N /\ n - 1 \in (k - 1)..M
      BY <1>2, <2>4, <2>7
    <3>2. Right(k - 1)
      BY <2>3, <3>1
    <3>3. C[n - 1][Last(k - 1)] = SubSeq(q, 1, k - 1)
      <4> HIDE DEF Last
      <4> QED  BY <3>1, <3>2
    <3>4. parent[q[k]] = Last(k - 1)
      <4>1. CASE k = 1
        BY <1>2, <3>1, <4>1 DEF Thread
      <4>2. CASE k # 1
        <5>1. k \in 2..Len(q) /\ k - 1 # 0
          BY <1>2, <3>1, <4>2
        <5> QED  BY <5>1 DEF Thread
      <4> QED  BY <4>1, <4>2
    <3>5. Last(k) = q[k] /\ q[k] \in Pid /\ q[k] # None
      BY <1>3, <2>7, <3>1
    <3>6. n \in 1..MAX_NUM_PROCESS
      BY <1>2, <2>4, <2>7
    <3>7. C[n] = Links(parent, C[n - 1])
      BY <1>1, <3>6
    <3>8. C[n][q[k]] = Append(C[n - 1][parent[q[k]]], q[k])
      BY <3>5, <3>7, Zenon DEF Links
    <3>9. C[n][Last(k)] = Append(SubSeq(q, 1, k - 1), q[k])
      <4> HIDE DEF Last
      <4> QED  BY <3>3, <3>4, <3>5, <3>8
    <3>10. Append(SubSeq(q, 1, k - 1), q[k]) = SubSeq(q, 1, k)
      <4>1. PICK x, z : x = SubSeq(q, 1, k - 1) /\ z = SubSeq(q, 1, k)
        BY Zenon
      <4>2. /\ x \in Seq(Pid) /\ Len(x) = k - 1 /\ \A j \in 1..(k - 1) : x[j] = q[j]
            /\ z \in Seq(Pid) /\ Len(z) = k /\ \A j \in 1..k : z[j] = q[j]
        BY <1>4, <2>4, <3>1, <4>1, Zenon
      <4>3. /\ Append(x, q[k]) \in Seq(Pid) /\ Len(Append(x, q[k])) = k
            /\ \A j \in 1..(k - 1) : Append(x, q[k])[j] = x[j]
            /\ Append(x, q[k])[k] = q[k]
        BY <3>1, <3>5, <4>2, AppendProperties
      <4>4. \A j \in 1..k : Append(x, q[k])[j] = z[j]
        BY <3>1, <4>2, <4>3
      <4>5. Append(x, q[k]) = z
        BY <4>2, <4>3, <4>4, SeqEqual
      <4> QED  BY <4>1, <4>5
    <3> QED  BY <2>5, <3>9, <3>10
  <2> QED  BY <2>6, <2>7
<1>6. Right(N)
  <2>1. N \in 0..N
    BY <1>2
  <2> QED  BY <1>5, <2>1, Zenon
<1>7. p = Last(N)
  BY <1>2 DEF Thread
<1>8. M \in N..M
  BY <1>2
<1>9. C[MAX_NUM_PROCESS][p] = SubSeq(q, 1, N)
  <2> HIDE DEF Last
  <2> QED  BY <1>2, <1>6, <1>7, <1>8
<1>10. SubSeq(q, 1, N) = q
  BY <1>2, <1>4, SeqEqual
<1> QED
  BY <1>1, <1>9, <1>10

(* No more distinct pids than there are. *)
LEMMA LengthBound ==
  ASSUME NEW q \in Seq(Pid), \A i, j \in 1..Len(q) : q[i] = q[j] => i = j
  PROVE  Len(q) <= MAX_NUM_PROCESS
<1>1. PICK N \in Nat, M \in Nat \ {0} : N = Len(q) /\ M = MAX_NUM_PROCESS
  BY ProcessAssumption
<1>2. IsFiniteSet(Pid) /\ Cardinality(Pid) = M
  <2>1. 0 \in Int /\ M - 1 \in Int /\ ~(0 > M - 1) /\ (M - 1) - 0 + 1 = M
    BY <1>1
  <2>2. IsFiniteSet(0..(M - 1)) /\ Cardinality(0..(M - 1)) = M
    BY <2>1, FS_Interval
  <2> QED  BY <1>1, <2>2 DEF Pid
<1>3. Cardinality(1..N) = N
  <2>1. N = 0 => 1 > N
    OBVIOUS
  <2>2. N # 0 => ~(1 > N) /\ N - 1 + 1 = N
    BY <1>1
  <2> QED  BY <2>1, <2>2, FS_Interval
<1>4. q \in Injection(1..N, Pid)
  <2>1. q \in [1..N -> Pid]
    BY <1>1
  <2> QED  BY <1>1, <2>1 DEF Injection, IsInjective
<1>5. Cardinality(1..N) <= Cardinality(Pid)
  BY <1>2, <1>4, FS_Injection
<1> QED
  BY <1>1, <1>2, <1>3, <1>5

(* Only one reading of the links is stacked. *)
LEMMA ReadIs ==
  ASSUME NEW parent, NEW leaf, NEW bitmap, NEW s, Stacked(parent, leaf, bitmap, s)
  PROVE  [t \in Tid |-> Chain(parent, leaf[t])] = s
<1>1. ASSUME NEW t \in Tid PROVE Chain(parent, leaf[t]) = s[t]
  <2>1. s[t] \in Seq(Pid) /\ Thread(parent, s[t], leaf[t])
    BY DEF Stacked
  <2>2. \A i, j \in 1..Len(s[t]) : s[t][i] = s[t][j] => i = j
    BY DEF Stacked
  <2>3. Len(s[t]) <= MAX_NUM_PROCESS
    BY <2>1, <2>2, LengthBound
  <2> QED  BY <2>1, <2>3, ChainIs
<1>2. s = [t \in Tid |-> s[t]]
  BY DEF Stacked
<1> QED
  BY <1>1, <1>2

-----------------------------------------------------------------------------
(* Every step of the processes is one of Sessions. *)

Leaves == [t \in Tid |-> Leaf(t)]

SessionsInv == Stacked(parent_pid, Leaves, pcb_bitmap, SessionsRead)

LEMMA Becomes ==
  ASSUME NEW s, Stacked(parent_pid', Leaves', pcb_bitmap', s)
  PROVE  SessionsInv' /\ SessionsRead' = s
<1>1. [t \in Tid |-> Chain(parent_pid', Leaves'[t])] = s
  BY ReadIs
<1>2. SessionsRead' = [t \in Tid |-> Chain(parent_pid', Leaves'[t])]
  BY DEF SessionsRead, Leaves
<1> QED
  BY <1>1, <1>2 DEF SessionsInv

LEMMA UsedIs ==
  ASSUME SessionsInv
  PROVE  S!Used = pcb_bitmap /\ S!Pid = Pid /\ S!Tid = Tid
<1>1. S!Pid = Pid /\ S!Tid = Tid
  BY DEF S!Pid, S!Tid, Pid, Tid
<1>2. ASSUME NEW p PROVE p \in S!Used <=> \E t \in Tid : In(SessionsRead[t], p)
  <2>1. \A t \in Tid : DOMAIN SessionsRead[t] = 1..Len(SessionsRead[t])
    BY DEF SessionsInv, Stacked
  <2>2. \A t \in Tid : p \in S!Range(SessionsRead[t]) <=> In(SessionsRead[t], p)
    BY <2>1 DEF S!Range, In
  <2> QED  BY <1>1, <2>2 DEF S!Used
<1>3. \A p : p \in S!Used <=> p \in pcb_bitmap
  BY <1>2 DEF SessionsInv, Stacked
<1> QED
  BY <1>1, <1>3

LEMMA ExecuteStarts ==
  ASSUME Alive, Clobber, SessionsInv, Execute
  PROVE  SessionsInv' /\ S!Start
<1> DEFINE s == SessionsRead
           t == running_term
           new == cur_pid'
<1>1. t \in Tid /\ parent_pid \in [Pid -> Pid \cup {None}] /\ cur_pid # None /\ Leaves[t] = cur_pid
  BY DEF Alive, TypeOK, Machine, Execute, Leaves, Leaf
<1>2. /\ new \in Pid /\ new \notin pcb_bitmap /\ pcb_bitmap' = pcb_bitmap \cup {new}
      /\ parent_pid' = [parent_pid EXCEPT ![new] = cur_pid]
  BY RecordProcess DEF Alive, TypeOK, Execute, StartProgram
<1>3. Leaves'[t] = new /\ \A u \in Tid : u # t => Leaves'[u] = Leaves[u]
  BY <1>1 DEF Leaves, Leaf, Execute
<1>4. Len(s[t]) # 0
  BY <1>1, Top DEF SessionsInv
<1> HIDE DEF s, new, t
<1>5. Stacked([parent_pid EXCEPT ![new] = Leaves[t]], Leaves', pcb_bitmap \cup {new},
              [s EXCEPT ![t] = Append(s[t], new)])
  BY <1>1, <1>2, <1>3, <1>4, Pushed, Zenon DEF SessionsInv, s
<1>6. SessionsInv' /\ SessionsRead' = [s EXCEPT ![t] = Append(s[t], new)]
  BY <1>1, <1>2, <1>5, Becomes, Zenon
<1>7. UNCHANGED <<running_term, exec_ret>>
  BY DEF Execute
<1>8. new \in S!Pid \ S!Used
  BY <1>2, UsedIs
<1>9. SessionsRead[running_term] # <<>>
  BY <1>4 DEF s, t
<1>10. S!Start
  BY <1>6, <1>7, <1>8, <1>9, Zenon DEF S!Start, s, t
<1> QED
  BY <1>6, <1>10

LEMMA HaltReplaces ==
  ASSUME Alive, Clobber, SessionsInv, cpu.mode \in {"user", "read"}, HaltBase
  PROVE  SessionsInv' /\ S!Replace
<1> DEFINE s == SessionsRead
           t == running_term
           new == cur_pid'
<1>1. t \in Tid /\ parent_pid \in [Pid -> Pid \cup {None}] /\ cur_pid # None /\ Leaves[t] = cur_pid
  BY DEF Alive, TypeOK, Machine, Leaves, Leaf
<1>2. /\ new \in Pid /\ new \notin pcb_bitmap \ {cur_pid}
      /\ pcb_bitmap' = (pcb_bitmap \ {cur_pid}) \cup {new}
      /\ parent_pid' = [parent_pid EXCEPT ![new] = None]
  <2>1. pcb_bitmap \ {cur_pid} \subseteq Pid
    BY DEF Alive, TypeOK
  <2> QED  BY <2>1, RecordProcess DEF HaltBase, StartProgram, decord_process
<1>3. Leaves'[t] = new /\ \A u \in Tid : u # t => Leaves'[u] = Leaves[u]
  BY <1>1 DEF Leaves, Leaf, HaltBase
<1>4. Len(s[t]) = 1 /\ s[t][1] = cur_pid
  <2>1. parent_pid[Leaves[t]] = None /\ Leaves[t] # None
    BY <1>1 DEF HaltBase
  <2> QED  BY <1>1, <2>1, Top DEF SessionsInv
<1> HIDE DEF s, new, t
<1>5. \A p : In(s[t], p) <=> p = cur_pid
  BY <1>4 DEF In
<1>6. \A p : p \in pcb_bitmap' <=> (p \in pcb_bitmap /\ ~ In(s[t], p)) \/ p = new
  BY <1>2, <1>5
<1>7. Stacked([parent_pid EXCEPT ![new] = None], Leaves', pcb_bitmap', [s EXCEPT ![t] = <<new>>])
  <2>1. Stacked(parent_pid, Leaves, pcb_bitmap, s) /\ Len(s[t]) \in 0..1
    BY <1>4 DEF SessionsInv, s
  <2>2. new \in pcb_bitmap => In(s[t], new)
    BY <1>2, <1>5
  <2> QED  BY <1>1, <1>2, <1>3, <1>6, <2>1, <2>2, Based, Zenon
<1>8. SessionsInv' /\ SessionsRead' = [s EXCEPT ![t] = <<new>>]
  BY <1>2, <1>7, Becomes, Zenon
<1>9. UNCHANGED <<running_term, exec_ret>>
  BY DEF HaltBase
<1>10. new \in (Pid \ pcb_bitmap) \cup S!Range(s[t])
  <2>1. cur_pid \in S!Range(s[t])
    <3>1. s[t] \in Seq(Pid)
      BY <1>1, Top DEF SessionsInv, s
    <3> QED  BY <1>4, <3>1 DEF S!Range
  <2> QED  BY <1>2, <2>1
<1> QED
  BY <1>4, <1>8, <1>9, <1>10, UsedIs, Zenon DEF S!Replace, s, t

LEMMA HaltEnds ==
  ASSUME Alive, Clobber, SessionsInv, cpu.mode \in {"user", "read"},
         NEW status \in Status \cup {255}, NEW why, HaltChild(status, why)
  PROVE  SessionsInv' /\ S!End
<1> DEFINE s == SessionsRead
           t == running_term
<1>1. t \in Tid /\ cur_pid # None /\ Leaves[t] = cur_pid
  BY DEF Alive, TypeOK, Machine, Leaves, Leaf
<1>2. /\ parent_pid[cur_pid] # None /\ cur_pid' = parent_pid[cur_pid]
      /\ pcb_bitmap' = pcb_bitmap \ {cur_pid}
      /\ exec_ret'.eax = IF status = 255 THEN 256 ELSE status
      /\ UNCHANGED <<parent_pid, term_pid, running_term>>
  BY DEF HaltChild, RestoreParent, decord_process
<1>3. Moves(Leaves, Leaves', t, parent_pid[Leaves[t]])
  BY <1>1, <1>2, SMTT(30) DEF Moves, Leaves, Leaf
<1>4. HasBelow(s[t]) /\ Len(s[t]) > 1
  <2>1. Stacked(parent_pid, Leaves, pcb_bitmap, s)
    BY DEF SessionsInv
  <2> HIDE DEF s, t
  <2>2. Leaves[t] # None /\ parent_pid[Leaves[t]] # None
    BY <1>1, <1>2
  <2> QED  BY <1>1, <2>1, <2>2, Top
<1> HIDE DEF s, t
<1>5. Stacked(parent_pid, Leaves', pcb_bitmap \ {Leaves[t]},
              [s EXCEPT ![t] = WithoutTop(s[t])])
  <2>1. Stacked(parent_pid, Leaves, pcb_bitmap, s)
    BY DEF SessionsInv, s
  <2>2. HasBelow(s[t])
    BY <1>4
  <2> QED  BY <1>1, <1>3, <2>1, <2>2, Popped
<1>6. SessionsInv' /\ SessionsRead' = [s EXCEPT ![t] = WithoutTop(s[t])]
  BY <1>1, <1>2, <1>5, Becomes
<1> QED
  BY <1>2, <1>4, <1>6 DEF S!End, WithoutTop, s, t

(* A step that moves no process changes no session. *)
LEMMA Stays ==
  ASSUME SessionsInv, UNCHANGED <<parent_pid, pcb_bitmap>>, Leaves' = Leaves
  PROVE  SessionsInv' /\ UNCHANGED SessionsRead
<1>1. Stacked(parent_pid', Leaves', pcb_bitmap', SessionsRead)
  BY DEF SessionsInv
<1> QED
  BY <1>1, Becomes

LEMMA NextTurn ==
  ASSUME NEW t \in Tid
  PROVE  next_term_to_run(t) = (t + 1) % TERM_NUM
<1>1. TERM_NUM \in Nat /\ TERM_NUM > 0 /\ t \in 0..(TERM_NUM - 1)
  BY ProcessAssumption DEF Tid
<1>2. CASE t + 1 = TERM_NUM
  BY <1>1, <1>2 DEF next_term_to_run
<1>3. CASE t + 1 # TERM_NUM
  <2>1. t + 1 \in 0..(TERM_NUM - 1)
    BY <1>1, <1>3
  <2>2. (t + 1) % TERM_NUM = t + 1
    BY <1>1, <2>1
  <2> QED  BY <1>3, <2>2 DEF next_term_to_run
<1> QED
  BY <1>2, <1>3

LEMMA TickTurns ==
  ASSUME Alive, Clobber, SessionsInv, Tick
  PROVE  SessionsInv' /\ S!TakeTurn
<1> DEFINE s == SessionsRead
           next == next_term_to_run(running_term)
<1>1. /\ next \in Tid /\ term_pid' = SavedTermPid /\ running_term' = next
      /\ SwitchTo(next) \/ LaunchBaseShell(next) \/ LaunchFails(next)
      /\ \A u \in Tid : SavedTermPid[u] = Leaves[u]
      /\ UNCHANGED exec_ret
      /\ parent_pid \in [Pid -> Pid \cup {None}] /\ pcb_bitmap \subseteq Pid
  BY NextTerm, SavedLeaf DEF Tick, schedule, Alive, TypeOK, Leaves
<1>2. next = (running_term + 1) % TERM_NUM
  BY NextTurn DEF Alive, TypeOK
<1> HIDE DEF s, next
<1>3. Leaves'[next] = cur_pid' /\ \A u \in Tid : u # next => Leaves'[u] = Leaves[u]
  <2>1. Leaves' = [u \in Tid |-> IF u = next THEN cur_pid' ELSE SavedTermPid[u]]
    BY <1>1 DEF Leaves, Leaf
  <2> QED  BY <1>1, <2>1
<1>4. Stacked(parent_pid, Leaves, pcb_bitmap, s)
  BY DEF SessionsInv, s
<1>5. S!Used = pcb_bitmap /\ S!Pid = Pid
  BY UsedIs
<1>6. s[next] = <<>> <=> Leaves[next] = None
  <2>1. s[next] \in Seq(Pid) /\ (Len(s[next]) = 0 <=> Leaves[next] = None)
    BY <1>1, <1>4, Top
  <2>2. Len(s[next]) = 0 <=> s[next] = <<>>
    BY <2>1
  <2> QED  BY <2>1, <2>2
<1>7. ASSUME UNCHANGED <<parent_pid, pcb_bitmap>>, cur_pid' = Leaves[next],
             Leaves[next] = None => pcb_bitmap = Pid
      PROVE  SessionsInv' /\ S!TakeTurn
  <2>1. Leaves' = Leaves
    <3>1. \A u \in Tid : Leaves'[u] = Leaves[u]
      BY <1>3, <1>7
    <3>2. Leaves = [u \in Tid |-> Leaves[u]] /\ Leaves' = [u \in Tid |-> Leaves'[u]]
      BY DEF Leaves
    <3> QED  BY <3>1, <3>2
  <2>2. SessionsInv' /\ UNCHANGED SessionsRead
    BY <1>7, <2>1, Stays
  <2>3. ~(SessionsRead[running_term'] = <<>> /\ S!Used # S!Pid)
    BY <1>1, <1>5, <1>6, <1>7 DEF s
  <2> QED  BY <1>1, <1>2, <2>2, <2>3 DEF S!TakeTurn
<1>8. CASE SwitchTo(next)
  <2>1. cur_pid' = Leaves[next] /\ Leaves[next] # None /\ UNCHANGED <<pcb_bitmap, parent_pid>>
    BY <1>1, <1>8 DEF SwitchTo
  <2> QED  BY <1>7, <2>1
<1>9. CASE LaunchFails(next)
  <2>1. cur_pid' = Leaves[next] /\ UNCHANGED <<pcb_bitmap, parent_pid>>
    BY <1>1, <1>9 DEF LaunchFails
  <2>2. pcb_bitmap = Pid
    BY <1>1, <1>9, RecordProcess DEF LaunchFails
  <2> QED  BY <1>7, <2>1, <2>2
<1>10. CASE LaunchBaseShell(next)
  <2> DEFINE new == cur_pid'
  <2>1. /\ new \in Pid /\ new \notin pcb_bitmap /\ pcb_bitmap' = pcb_bitmap \cup {new}
        /\ parent_pid' = [parent_pid EXCEPT ![new] = None]
        /\ Leaves[next] = None
    BY <1>1, <1>10, RecordProcess DEF LaunchBaseShell, StartProgram
  <2>2. s[next] = <<>> /\ Len(s[next]) \in 0..1 /\ \A p : ~ In(s[next], p)
    BY <1>6, <2>1 DEF In
  <2> HIDE DEF new
  <2>3. \A p : p \in pcb_bitmap' <=> (p \in pcb_bitmap /\ ~ In(s[next], p)) \/ p = new
    BY <2>1, <2>2
  <2>4. Leaves'[next] = new
    BY <1>3 DEF new
  <2>5. Stacked([parent_pid EXCEPT ![new] = None], Leaves', pcb_bitmap', [s EXCEPT ![next] = <<new>>])
    BY <1>1, <1>3, <1>4, <2>1, <2>2, <2>3, <2>4, Based, Zenon
  <2>6. SessionsInv' /\ SessionsRead' = [s EXCEPT ![next] = <<new>>]
    BY <2>1, <2>5, Becomes, ZenonT(60)
  <2>7. SessionsRead[running_term'] = <<>> /\ new \in S!Pid \ S!Used /\ S!Used # S!Pid
    BY <1>1, <1>5, <2>1, <2>2, SMTT(30) DEF s
  <2>8. SessionsRead' = [SessionsRead EXCEPT ![running_term'] = <<new>>]
    BY <1>1, <2>6 DEF s
  <2>9. S!TakeTurn
    BY <1>1, <1>2, <2>7, <2>8, Zenon DEF S!TakeTurn
  <2> QED  BY <2>6, <2>9, SMTT(30)
<1> QED
  BY <1>1, <1>8, <1>9, <1>10, SMTT(30)

LEMMA SessionsInit == Init => SessionsInv /\ S!Init
<1> SUFFICES ASSUME Init PROVE SessionsInv /\ S!Init
  OBVIOUS
<1> DEFINE s == [t \in Tid |-> <<>>]
<1>1. s \in [Tid -> Seq(Pid)] /\ \A t \in Tid : Len(s[t]) = 0 /\ \A p : ~ In(s[t], p)
  BY DEF In
<1>2. \A t \in Tid : Leaves[t] = None
  BY DEF Init, Leaves, Leaf
<1> HIDE DEF s
<1>3. Stacked(parent_pid, Leaves, pcb_bitmap, s)
  <2>1. \A t \in Tid : Thread(parent_pid, s[t], Leaves[t])
    BY <1>1, <1>2 DEF Thread
  <2>2. \A t \in Tid : 1..Len(s[t]) = {}
    BY <1>1
  <2> QED  BY <1>1, <2>1, <2>2, SMTT(30) DEF Stacked, Init
<1>4. SessionsRead = s
  <2>1. SessionsRead = [t \in Tid |-> Chain(parent_pid, Leaves[t])]
    BY DEF SessionsRead, Leaves
  <2> QED  BY <1>3, <2>1, ReadIs
<1>5. SessionsInv
  BY <1>3, <1>4 DEF SessionsInv
<1>6. S!Init
  BY <1>4, <1>5, UsedIs DEF S!Init, Init, s
<1> QED
  BY <1>5, <1>6

LEMMA SessionsStep == IInv /\ SessionsInv /\ [Next]_vars => SessionsInv' /\ [S!Next]_(S!vars)
<1> SUFFICES ASSUME IInv, SessionsInv, [Next]_vars PROVE SessionsInv' /\ [S!Next]_(S!vars)
  OBVIOUS
<1>1. ASSUME UNCHANGED <<cur_pid, pcb_bitmap, parent_pid, term_pid, running_term>>
      PROVE  SessionsInv' /\ UNCHANGED <<SessionsRead, running_term>>
  <2>1. Leaves' = Leaves
    BY <1>1 DEF Leaves, Leaf
  <2> QED  BY <1>1, <2>1, Stays
<1>2. CASE UNCHANGED vars
  BY <1>1, <1>2 DEF vars, S!vars
<1>3. CASE Next
  <2>1. Alive /\ Clobber /\ Step
    BY <1>3, StepCases DEF Next
  <2>2. ASSUME cpu.mode = "user" PROVE SessionsRead[running_term] # <<>>
    <3>1. running_term \in Tid /\ Leaves[running_term] # None
      BY <2>1, <2>2, SMTT(30) DEF Alive, TypeOK, Machine, Leaves, Leaf
    <3>2. Len(SessionsRead[running_term]) # 0
      BY <3>1, Top DEF SessionsInv
    <3> QED  BY <3>2
  <2>3. CASE ExecuteNoProgram
    <3>1. SessionsInv' /\ UNCHANGED <<SessionsRead, running_term>> /\ exec_ret'.eax = -1
      BY <1>1, <2>3, SMTT(30) DEF ExecuteNoProgram
    <3>2. S!Missing
      BY <2>2, <2>3, <3>1 DEF S!Missing, ExecuteNoProgram
    <3> QED  BY <3>1, <3>2 DEF S!Next
  <2>4. CASE ExecuteFull
    <3>1. SessionsInv' /\ UNCHANGED <<SessionsRead, running_term>> /\ exec_ret'.eax = 0
      BY <1>1, <2>4, SMTT(30) DEF ExecuteFull
    <3>2. S!Used = S!Pid
      BY <2>1, <2>4, RecordProcess, UsedIs, SMTT(30) DEF ExecuteFull, Alive, TypeOK
    <3>3. S!Full
      BY <2>2, <2>4, <3>1, <3>2, SMTT(30) DEF S!Full, ExecuteFull
    <3> QED  BY <3>1, <3>3 DEF S!Next
  <2>5. CASE Execute
    BY <2>1, <2>5, ExecuteStarts DEF S!Next
  <2>6. CASE Iret \/ ReadBegin \/ ReadReturn
    <3>1. UNCHANGED <<cur_pid, pcb_bitmap, parent_pid, term_pid, running_term, exec_ret>>
      BY <2>6 DEF Iret, ReadBegin, ReadReturn
    <3> QED  BY <1>1, <3>1 DEF S!vars
  <2>7. ASSUME cpu.mode \in {"user", "read"}, NEW status \in Status \cup {255}, NEW why,
               syscall_halt(status, why)
        PROVE  SessionsInv' /\ S!Next
    <3>1. CASE HaltBase
      BY <2>1, <2>7, <3>1, HaltReplaces DEF S!Next
    <3>2. CASE HaltChild(status, why)
      BY <2>1, <2>7, <3>2, HaltEnds DEF S!Next
    <3> QED  BY <2>7, <3>1, <3>2 DEF syscall_halt
  <2>8. CASE Halt
    BY <2>7, <2>8 DEF Halt
  <2>9. CASE Exception
    BY <2>7, <2>9 DEF Exception
  <2>10. CASE Tick
    BY <2>1, <2>10, TickTurns DEF S!Next
  <2> QED  BY <2>1, <2>3, <2>4, <2>5, <2>6, <2>8, <2>9, <2>10 DEF Step
<1> QED
  BY <1>2, <1>3

(***************************************************************************)
(* Execute, halt and schedule implement Sessions: whatever they do to the  *)
(* parent_pid links, cur_pid and term_arr[].pid, these read as one         *)
(* disjoint stack of programs per terminal, each step changes the stack of *)
(* the running terminal only as Sessions allows, and execute answers as    *)
(* it says.                                                                *)
(***************************************************************************)
THEOREM ProcessIsSessions == Spec => RefinesSessions
<1>1. Init => SessionsInv /\ S!Init
  BY SessionsInit
<1>2. IInv /\ SessionsInv /\ [Next]_vars => SessionsInv' /\ [S!Next]_(S!vars)
  BY SessionsStep
<1> QED
  BY <1>1, <1>2, Invariance, PTL DEF Spec, RefinesSessions, S!Spec
=============================================================================
