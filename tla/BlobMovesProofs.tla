--------------------------- MODULE BlobMovesProofs ---------------------------
(* What holds of the commands on folders for any names, any commands and any *)
(* way the listing is cut into pages, when commands are given in turn and a  *)
(* name changes into one that neither is inside the other, as the desktop's  *)
(* dialog sees to: it changes the last segment only (App.tsx,                *)
(* handleRenameRow).                                                         *)
EXTENDS BlobMoves, TLAPS, SequenceTheorems

InTurn ==
  /\ Together = {}
  /\ \A c \in Commands : Kind[c] = "rename" => ~StartsWith(Source[c], Target[c])

(* At most one command is under way, and it is not one that is refused. *)
Sound(c) ==
  /\ Active(c) => ~Refused(c)
  /\ cmd[c].pc = "copying" => Kind[c] # "delete"
  /\ cmd[c].pc = "deleting" => Kind[c] # "copy"
  /\ \A p \in cmd[c].names : Named(c, p)
  /\ cmd[c].left \subseteq cmd[c].names

Alone == \A c, d \in Commands : Active(c) /\ Active(d) => c = d

(* What a rename has copied is in both places... *)
Copied(c) ==
  Kind[c] = "rename" /\ cmd[c].pc = "copying" =>
    \A p \in cmd[c].names \ cmd[c].left : store[p] # Absent /\ store[Dest(c, p)] = store[p]

(* ...so that what it deletes is also at its destination. *)
Deletable(c) ==
  Kind[c] = "rename" /\ cmd[c].pc = "deleting" =>
    \A p \in cmd[c].names : store[p] # Absent => store[Dest(c, p)] = store[p]

IInv ==
  /\ TypeOK
  /\ Alone
  /\ \A c \in Commands : Sound(c) /\ Copied(c) /\ Deletable(c)
  /\ NothingLost

(* The rest of a name, from its segment k + 1 on. *)
LEMMA RestOfName ==
  ASSUME NEW p \in Seq(STRING), NEW k \in Nat, k <= Len(p)
  PROVE  \E u \in Seq(STRING) :
           /\ u = SubSeq(p, k + 1, Len(p))
           /\ Len(u) = Len(p) - k
           /\ \A i \in 1..(Len(p) - k) : u[i] = p[k + i]
<1> DEFINE u == SubSeq(p, k + 1, Len(p))
<1>1. Len(p) \in Nat /\ \A i \in 1..Len(p) : p[i] \in STRING
  BY LenProperties
<1>2. \A i \in (k + 1)..Len(p) : p[i] \in STRING
  BY <1>1
<1>3. u \in Seq(STRING)
  BY <1>1, <1>2
<1>4. Len(u) = Len(p) - k
  BY <1>1
<1>5. \A i \in 1..(Len(p) - k) : u[i] = p[k + i]
  BY <1>1
<1> HIDE DEF u
<1>6. u = SubSeq(p, k + 1, Len(p))
  BY DEF u
<1> QED
  BY <1>3, <1>4, <1>5, <1>6

(* The name a blob gets starts with the target, and goes on as its own did. *)
LEMMA DestShape ==
  ASSUME NEW c \in Commands, NEW p \in Paths, Named(c, p)
  PROVE  /\ Dest(c, p) \in Seq(STRING)
         /\ Len(Source[c]) <= Len(p)
         /\ Len(Dest(c, p)) = Len(Target[c]) + Len(p) - Len(Source[c])
         /\ \A i \in 1..Len(Target[c]) : Dest(c, p)[i] = Target[c][i]
         /\ \A i \in (Len(Source[c]) + 1)..Len(p) :
              Dest(c, p)[i - Len(Source[c]) + Len(Target[c])] = p[i]
<1> DEFINE s == Source[c]
           t == Target[c]
           n == Len(p)
<1>1. s \in Seq(STRING) /\ t \in Seq(STRING) /\ p \in Seq(STRING)
  BY BlobMovesAssumption
<1>2. Len(s) \in Nat /\ Len(t) \in Nat /\ n \in Nat
  BY <1>1, LenProperties
<1>3. Len(s) <= n
  BY <1>1, <1>2 DEF Named, StartsWith
<1>4. PICK u \in Seq(STRING) :
        /\ u = SubSeq(p, Len(s) + 1, n)
        /\ Len(u) = n - Len(s)
        /\ \A i \in 1..(n - Len(s)) : u[i] = p[Len(s) + i]
  BY <1>1, <1>2, <1>3, RestOfName
<1> HIDE DEF s, t, n
<1>5. /\ t \o u \in Seq(STRING)
      /\ Len(t \o u) = Len(t) + Len(u)
      /\ \A i \in 1..(Len(t) + Len(u)) : (t \o u)[i] = IF i <= Len(t) THEN t[i] ELSE u[i - Len(t)]
  BY <1>1, <1>4, ConcatProperties
<1>6. Dest(c, p) = t \o u
  BY <1>4 DEF Dest, s, t, n
<1>7. \A i \in 1..Len(t) : (t \o u)[i] = t[i]
  BY <1>2, <1>3, <1>4, <1>5
<1>8. ASSUME NEW i \in (Len(s) + 1)..n
       PROVE  (t \o u)[i - Len(s) + Len(t)] = p[i]
  <2>1. i - Len(s) \in 1..(n - Len(s)) /\ Len(s) + (i - Len(s)) = i
    BY <1>2, <1>3, <1>8
  <2>2. u[i - Len(s)] = p[i]
    BY <2>1, <1>4
  <2>3. /\ i - Len(s) + Len(t) \in 1..(Len(t) + Len(u))
        /\ ~(i - Len(s) + Len(t) <= Len(t))
        /\ i - Len(s) + Len(t) - Len(t) = i - Len(s)
    BY <1>2, <1>3, <1>4, <1>8
  <2> QED
    BY <2>2, <2>3, <1>5
<1> QED
  BY <1>2, <1>3, <1>4, <1>5, <1>6, <1>7, <1>8 DEF s, t, n

(* Two blobs of a folder get different names. *)
LEMMA DestInjective ==
  ASSUME NEW c \in Commands, NEW p \in Paths, NEW q \in Paths,
         Named(c, p), Named(c, q), Dest(c, p) = Dest(c, q)
  PROVE  p = q
<1> DEFINE s == Source[c]
           t == Target[c]
<1>1. p \in Seq(STRING) /\ q \in Seq(STRING) /\ s \in Seq(STRING) /\ t \in Seq(STRING)
  BY BlobMovesAssumption
<1>2. Len(p) \in Nat /\ Len(q) \in Nat /\ Len(s) \in Nat /\ Len(t) \in Nat
  BY <1>1, LenProperties
<1>3. CASE ~Folder[c]
  BY <1>3 DEF Named
<1>4. CASE Folder[c]
  <2>1. StartsWith(p, s) /\ StartsWith(q, s)
    BY <1>4 DEF Named
  <2>2. Len(p) = Len(q)
    <3>1. Len(Dest(c, p)) = Len(t) + Len(p) - Len(s)
      BY DestShape
    <3>2. Len(Dest(c, q)) = Len(t) + Len(q) - Len(s)
      BY DestShape
    <3> QED
      BY <3>1, <3>2, <1>2
  <2>3. ASSUME NEW i \in 1..Len(p)
        PROVE  p[i] = q[i]
    <3>1. CASE i <= Len(s)
      BY <3>1, <2>1, <1>2 DEF StartsWith
    <3>2. CASE ~(i <= Len(s))
      <4>1. i \in (Len(s) + 1)..Len(p) /\ i \in (Len(s) + 1)..Len(q)
        BY <3>2, <2>2, <1>2
      <4>2. p[i] = Dest(c, p)[i - Len(s) + Len(t)]
        BY <4>1, DestShape
      <4>3. q[i] = Dest(c, q)[i - Len(s) + Len(t)]
        BY <4>1, DestShape
      <4> QED
        BY <4>2, <4>3
    <3> QED
      BY <3>1, <3>2
  <2> QED
    BY <2>2, <2>3, <1>1, SeqEqual
<1> QED
  BY <1>3, <1>4

(* What is put into a target that neither contains the source nor is in it is *)
(* not one of the blobs of the source.                                        *)
LEMMA TargetApart ==
  ASSUME NEW c \in Commands, Kind[c] # "delete", ~Refused(c),
         ~StartsWith(Source[c], Target[c]),
         NEW p \in Paths, NEW q \in Paths, Named(c, p), Named(c, q)
  PROVE  Dest(c, p) # q
<1> DEFINE s == Source[c]
           t == Target[c]
<1>1. q \in Seq(STRING) /\ s \in Seq(STRING) /\ t \in Seq(STRING) /\ p \in Seq(STRING)
  BY BlobMovesAssumption
<1>2. Len(q) \in Nat /\ Len(s) \in Nat /\ Len(t) \in Nat /\ Len(p) \in Nat
  BY <1>1, LenProperties
<1>3. s # t
  BY DEF Refused
<1>4. SUFFICES ASSUME Dest(c, p) = q PROVE FALSE
  OBVIOUS
<1>5. /\ Len(q) = Len(t) + Len(p) - Len(s)
      /\ Len(s) <= Len(p)
      /\ \A i \in 1..Len(t) : q[i] = t[i]
  BY <1>4, DestShape
<1>6. CASE ~Folder[c]
  <2>1. p = s /\ q = s
    BY <1>6 DEF Named
  <2>2. Len(s) = Len(t) /\ \A i \in 1..Len(s) : s[i] = t[i]
    BY <2>1, <1>2, <1>5
  <2> QED
    BY <2>2, <1>1, <1>3, SeqEqual
<1>7. CASE Folder[c]
  <2>1. \A i \in 1..Len(s) : q[i] = s[i]
    BY <1>7 DEF Named, StartsWith
  <2>2. ~StartsWith(t, s) /\ ~StartsWith(s, t)
    BY <1>7 DEF Refused
  <2>3. CASE Len(s) <= Len(t)
    <3>1. \A i \in 1..Len(s) : t[i] = s[i]
      BY <2>1, <2>3, <1>2, <1>5
    <3> QED
      BY <3>1, <2>2, <2>3 DEF StartsWith
  <2>4. CASE Len(t) <= Len(s)
    <3>1. \A i \in 1..Len(t) : s[i] = t[i]
      BY <2>1, <2>4, <1>2, <1>5
    <3> QED
      BY <3>1, <2>2, <2>4 DEF StartsWith
  <2> QED
    BY <2>3, <2>4, <1>2
<1> QED
  BY <1>6, <1>7

LEMMA DestApart ==
  ASSUME InTurn, NEW c \in Commands, Kind[c] = "rename", ~Refused(c),
         NEW p \in Paths, NEW q \in Paths, Named(c, p), Named(c, q)
  PROVE  Dest(c, p) # q
BY TargetApart DEF InTurn

(* Setting one command's state leaves the others as they are. *)
LEMMA SetOne ==
  ASSUME TypeOK, NEW c \in Commands, NEW state \in Command, Set(c, state)
  PROVE  /\ cmd' \in [Commands -> Command]
         /\ cmd'[c] = state
         /\ \A d \in Commands : d # c => cmd'[d] = cmd[d]
BY DEF Set, TypeOK

LEMMA EndOne ==
  ASSUME TypeOK, NEW c \in Commands, NEW result \in {"ok", "failed"}, End(c, result)
  PROVE  /\ cmd' \in [Commands -> Command]
         /\ cmd'[c].pc = result
         /\ cmd'[c].names = {}
         /\ cmd'[c].left = {}
         /\ \A d \in Commands : d # c => cmd'[d] = cmd[d]
<1> DEFINE state == [pc |-> result, covered |-> 0, names |-> {}, left |-> {}, found |-> Empty]
<1>1. Empty \in [Paths -> Paths \cup {Absent}]
  BY DEF Empty
<1>2. state \in Command
  BY <1>1 DEF Command
<1>3. Set(c, state)
  BY DEF End
<1>4. /\ state.pc = result
      /\ state.names = {}
      /\ state.left = {}
  OBVIOUS
<1> HIDE DEF state
<1> QED
  BY <1>2, <1>3, <1>4, SetOne

LEMMA StartOne ==
  ASSUME TypeOK, NEW c \in Commands, NEW state \in Command,
         NEW names \in SUBSET Paths, Start(c, state, names)
  PROVE  /\ cmd' \in [Commands -> Command]
         /\ cmd'[c].pc = IF Kind[c] = "delete" THEN "deleting" ELSE "copying"
         /\ cmd'[c].names = names
         /\ cmd'[c].left = names
         /\ \A d \in Commands : d # c => cmd'[d] = cmd[d]
<1> DEFINE next == [state EXCEPT !.pc = IF Kind[c] = "delete" THEN "deleting" ELSE "copying",
                                 !.names = names, !.left = names]
<1>1. next \in Command
  BY DEF Command
<1>2. Set(c, next)
  BY DEF Start
<1>3. /\ next.pc = IF Kind[c] = "delete" THEN "deleting" ELSE "copying"
      /\ next.names = names
      /\ next.left = names
  BY DEF Command
<1> HIDE DEF next
<1> QED
  BY <1>1, <1>2, <1>3, SetOne

(* Nothing is lost by a step that leaves the store alone. *)
LEMMA SameStore ==
  ASSUME NothingLost, UNCHANGED <<store, born, given, unasked>>
  PROVE  NothingLost'
BY DEF NothingLost

(* A step of one command leaves the others' parts of the invariant as they are. *)
LEMMA Others ==
  ASSUME IInv, NEW c \in Commands,
         \A d \in Commands : Active(d) => d = c,
         cmd' \in [Commands -> Command],
         \A d \in Commands : d # c => cmd'[d] = cmd[d],
         Sound(c)', Copied(c)', Deletable(c)'
  PROVE  Alone' /\ \A d \in Commands : Sound(d)' /\ Copied(d)' /\ Deletable(d)'
<1>1. ASSUME NEW d \in Commands, d # c
      PROVE  ~Active(d)' /\ Sound(d)' /\ Copied(d)' /\ Deletable(d)'
  <2>1. cmd'[d] = cmd[d] /\ ~Active(d) /\ Sound(d)
    BY <1>1 DEF IInv
  <2>2. ~Active(d)'
    BY <2>1 DEF Active
  <2>3. cmd'[d].pc # "copying" /\ cmd'[d].pc # "deleting"
    BY <2>2 DEF Active
  <2>4. Sound(d)'
    BY <2>1, <2>2, <2>3 DEF Sound
  <2> QED
    BY <2>2, <2>3, <2>4 DEF Copied, Deletable
<1>2. Alone'
  BY <1>1 DEF Alone
<1> QED
  BY <1>1, <1>2

(* Carrying out a copy: the destination gets the content of the blob, and what *)
(* it held before is given up.                                                 *)
LEMMA CopyEffect ==
  ASSUME IInv, InTurn, NEW c \in Commands, cmd[c].pc = "copying",
         NEW p \in cmd[c].left, CarryOutCopy(c, p), born' = born
  PROVE  /\ p \in Paths
         /\ Dest(c, p) \in Paths
         /\ store' \in [Paths -> Paths \cup {Absent}]
         /\ store[p] # Absent
         /\ store'[Dest(c, p)] = store[p]
         /\ \A q \in Paths : q # Dest(c, p) => store'[q] = store[q]
         /\ given' \subseteq Paths /\ unasked' \subseteq given'
         /\ NothingLost'
<1>1. p \in Paths /\ Named(c, p) /\ Kind[c] # "delete"
  BY DEF IInv, Sound, TypeOK, Command
<1>2. Dest(c, p) \in Paths
  BY <1>1, BlobMovesAssumption
<1> DEFINE e == Dest(c, p)
           old == {store[e]} \ {Absent, store[p]}
<1>3. /\ store \in [Paths -> Paths \cup {Absent}]
      /\ given \subseteq Paths
      /\ unasked \subseteq given
      /\ born \subseteq Paths
  BY DEF IInv, TypeOK
<1>4. /\ store[p] # Absent
      /\ store' = [store EXCEPT ![e] = store[p]]
      /\ given' = given \cup old
      /\ unasked' = unasked \cup old
  BY DEF CarryOutCopy, Give
<1>5. old \subseteq Paths
  BY <1>2, <1>3
<1> HIDE DEF e
<1>6. e \in Paths
  BY <1>2 DEF e
<1>7. /\ store' \in [Paths -> Paths \cup {Absent}]
      /\ store'[e] = store[p]
      /\ \A q \in Paths : q # e => store'[q] = store[q]
  BY <1>1, <1>3, <1>4, <1>6
<1>8. ASSUME NEW v \in born \ given'
      PROVE  \E q \in Paths : store'[q] = v
  <2>1. v # Absent
    BY <1>3, BlobMovesAssumption
  <2>2. PICK q \in Paths : store[q] = v
    BY <1>4 DEF IInv, NothingLost
  <2>3. CASE q # e
    BY <2>2, <2>3, <1>7
  <2>4. CASE q = e
    BY <2>1, <2>2, <2>4, <1>4, <1>6, <1>7
  <2> QED
    BY <2>3, <2>4
<1>9. NothingLost'
  BY <1>8 DEF NothingLost
<1>10. given' \subseteq Paths /\ unasked' \subseteq given'
  BY <1>3, <1>4, <1>5
<1> HIDE DEF old
<1> QED
  BY <1>1, <1>2, <1>4, <1>7, <1>9, <1>10 DEF e

(* Carrying out a deletion: what a rename deletes is at its destination. *)
LEMMA DeleteEffect ==
  ASSUME IInv, InTurn, NEW c \in Commands, cmd[c].pc = "deleting",
         NEW p \in cmd[c].left, CarryOutDelete(c, p), born' = born
  PROVE  /\ p \in Paths
         /\ store' \in [Paths -> Paths \cup {Absent}]
         /\ store'[p] = Absent
         /\ \A q \in Paths : q # p => store'[q] = store[q]
         /\ given' \subseteq Paths /\ unasked' \subseteq given'
         /\ NothingLost'
<1>1. /\ p \in Paths /\ p \in cmd[c].names /\ Named(c, p)
      /\ Kind[c] \in {"rename", "delete"} /\ ~Refused(c)
  BY BlobMovesAssumption DEF IInv, Sound, TypeOK, Command, Active
<1>2. /\ store \in [Paths -> Paths \cup {Absent}]
      /\ given \subseteq Paths
      /\ unasked \subseteq given
      /\ born \subseteq Paths
  BY DEF IInv, TypeOK
<1>3. /\ store[p] # Absent
      /\ store' = [store EXCEPT ![p] = Absent]
      /\ given' = given \cup (IF Kind[c] = "delete" THEN {store[p]} ELSE {})
      /\ unasked' = unasked
  BY DEF CarryOutDelete, Give
<1>4. /\ store' \in [Paths -> Paths \cup {Absent}]
      /\ store'[p] = Absent
      /\ \A q \in Paths : q # p => store'[q] = store[q]
  BY <1>1, <1>2, <1>3
<1>5. given' \subseteq Paths /\ unasked' \subseteq given'
  BY <1>1, <1>2, <1>3
<1>6. ASSUME NEW v \in born \ given'
      PROVE  \E q \in Paths : store'[q] = v
  <2>1. PICK q \in Paths : store[q] = v
    BY <1>3 DEF IInv, NothingLost
  <2>2. CASE q # p
    BY <2>1, <2>2, <1>4
  <2>3. CASE q = p /\ Kind[c] = "delete"
    BY <2>1, <2>3, <1>3
  <2>4. CASE q = p /\ Kind[c] = "rename"
    <3>1. store[Dest(c, p)] = store[p]
      BY <2>4, <1>1, <1>3 DEF IInv, Deletable
    <3>2. Dest(c, p) \in Paths
      BY <2>4, <1>1, BlobMovesAssumption
    <3>3. Dest(c, p) # p
      BY <2>4, <1>1, DestApart
    <3> QED
      BY <3>1, <3>2, <3>3, <2>1, <2>4, <1>4
  <2> QED
    BY <2>2, <2>3, <2>4, <1>1
<1>7. NothingLost'
  BY <1>6 DEF NothingLost
<1> QED
  BY <1>1, <1>4, <1>5, <1>7

LEMMA InitIInv == Init => IInv
<1> SUFFICES ASSUME Init PROVE IInv
  OBVIOUS
<1>1. store \in [Paths -> Paths \cup {Absent}]
  BY DEF Init
<1>2. Empty \in [Paths -> Paths \cup {Absent}]
  BY DEF Empty
<1>3. cmd \in [Commands -> Command]
  BY <1>2 DEF Init, Command
<1>4. TypeOK
  BY <1>1, <1>3 DEF Init, TypeOK
<1>5. \A c \in Commands : cmd[c].pc = "idle" /\ cmd[c].names = {} /\ cmd[c].left = {}
  BY DEF Init
<1>6. Alone /\ \A c \in Commands : Sound(c) /\ Copied(c) /\ Deletable(c)
  BY <1>5 DEF Alone, Sound, Copied, Deletable, Active
<1>7. NothingLost
  BY DEF Init, NothingLost
<1> QED
  BY <1>4, <1>6, <1>7 DEF IInv

(* Steps that leave the store alone. *)

LEMMA EndKeeps ==
  ASSUME IInv, NEW c \in Commands, \A d \in Commands : Active(d) => d = c,
         NEW result \in {"ok", "failed"}, End(c, result)
  PROVE  /\ cmd' \in [Commands -> Command]
         /\ Alone' /\ \A d \in Commands : Sound(d)' /\ Copied(d)' /\ Deletable(d)'
<1>1. /\ cmd' \in [Commands -> Command]
      /\ cmd'[c].pc = result /\ cmd'[c].names = {} /\ cmd'[c].left = {}
      /\ \A d \in Commands : d # c => cmd'[d] = cmd[d]
  BY EndOne DEF IInv
<1>2. Sound(c)' /\ Copied(c)' /\ Deletable(c)'
  BY <1>1 DEF Sound, Copied, Deletable, Active
<1> QED
  BY <1>1, <1>2, Others

LEMMA StartKeeps ==
  ASSUME IInv, NEW c \in Commands, \A d \in Commands : Active(d) => d = c, ~Refused(c),
         NEW state \in Command, NEW names \in SUBSET Paths, \A p \in names : Named(c, p),
         Start(c, state, names), UNCHANGED store
  PROVE  /\ cmd' \in [Commands -> Command]
         /\ Alone' /\ \A d \in Commands : Sound(d)' /\ Copied(d)' /\ Deletable(d)'
<1>1. /\ cmd' \in [Commands -> Command]
      /\ cmd'[c].pc = IF Kind[c] = "delete" THEN "deleting" ELSE "copying"
      /\ cmd'[c].names = names /\ cmd'[c].left = names
      /\ \A d \in Commands : d # c => cmd'[d] = cmd[d]
  BY StartOne DEF IInv
<1>2. ~Refused(c)'
  BY DEF Refused
<1>3. Sound(c)'
  BY <1>1, <1>2 DEF Sound
<1>4. Copied(c)' /\ Deletable(c)'
  BY <1>1 DEF Copied, Deletable
<1> QED
  BY <1>1, <1>3, <1>4, Others

LEMMA BeginKeeps ==
  ASSUME IInv, InTurn, NEW c \in Commands, Begin(c)
  PROVE  IInv'
<1>1. \A d \in Commands : ~Active(d)
  BY DEF Begin, InTurn
<1>2. /\ UNCHANGED <<store, born, given, unasked>>
      /\ TypeOK /\ NothingLost
  BY DEF Begin, IInv
<1> DEFINE begun == [cmd[c] EXCEPT !.found =
                       [p \in Paths |-> IF Named(c, p) THEN store[p] ELSE Absent]]
<1>3. begun \in Command
  BY <1>2 DEF TypeOK, Command
<1>4. /\ cmd' \in [Commands -> Command]
      /\ Alone' /\ \A d \in Commands : Sound(d)' /\ Copied(d)' /\ Deletable(d)'
  <2>1. CASE Refused(c)
    <3>1. End(c, "failed")
      BY <2>1 DEF Begin
    <3> QED
      BY <3>1, <1>1, EndKeeps
  <2>2. CASE ~Refused(c) /\ Folder[c]
    <3> DEFINE next == [begun EXCEPT !.pc = "listing"]
    <3>1. Set(c, next)
      BY <2>2 DEF Begin
    <3>2. next \in Command
      BY <1>3 DEF Command
    <3>3. next.pc = "listing" /\ next.names = cmd[c].names /\ next.left = cmd[c].left
      BY <1>2 DEF Command, TypeOK
    <3> HIDE DEF next
    <3>4. /\ cmd' \in [Commands -> Command]
          /\ cmd'[c] = next
          /\ \A d \in Commands : d # c => cmd'[d] = cmd[d]
      BY <3>1, <3>2, <1>2, SetOne
    <3>5. Sound(c) /\ ~Refused(c)'
      BY <2>2 DEF IInv, Refused
    <3>6. Sound(c)' /\ Copied(c)' /\ Deletable(c)'
      BY <3>3, <3>4, <3>5 DEF Sound, Copied, Deletable
    <3> QED
      BY <3>4, <3>6, <1>1, Others
  <2>3. CASE ~Refused(c) /\ ~Folder[c]
    <3>1. Start(c, begun, {Source[c]})
      BY <2>3 DEF Begin
    <3>2. {Source[c]} \in SUBSET Paths /\ \A p \in {Source[c]} : Named(c, p)
      BY <2>3, BlobMovesAssumption DEF Named
    <3> HIDE DEF begun
    <3> QED
      BY <2>3, <3>1, <3>2, <1>1, <1>2, <1>3, StartKeeps
  <2> QED
    BY <2>1, <2>2, <2>3
<1> HIDE DEF begun
<1>5. TypeOK' /\ NothingLost'
  BY <1>2, <1>4, SameStore DEF TypeOK
<1> QED
  BY <1>4, <1>5 DEF IInv

LEMMA ListPageKeeps ==
  ASSUME IInv, NEW c \in Commands, ListPage(c)
  PROVE  IInv'
<1>1. /\ \A d \in Commands : Active(d) => d = c
      /\ Active(c) /\ ~Refused(c) /\ Sound(c)
      /\ cmd[c] \in Command
  BY DEF ListPage, IInv, Alone, Active, Sound, TypeOK
<1>2. /\ UNCHANGED <<store, born, given, unasked>>
      /\ TypeOK /\ NothingLost
  BY DEF ListPage, IInv
<1>3. PICK q \in Paths :
        LET names == cmd[c].names \cup Page(c, Rank[q])
            more == \E p \in Paths : Rank[q] < Rank[p]
        IN  IF more THEN Set(c, [cmd[c] EXCEPT !.covered = Rank[q], !.names = names])
            ELSE IF names = {} THEN End(c, "failed")
            ELSE Start(c, cmd[c], names)
  BY DEF ListPage
<1> DEFINE names == cmd[c].names \cup Page(c, Rank[q])
           next == [cmd[c] EXCEPT !.covered = Rank[q], !.names = names]
<1>4. names \in SUBSET Paths /\ \A p \in names : Named(c, p)
  BY <1>1 DEF Page, Sound, Command
<1>5. /\ cmd' \in [Commands -> Command]
      /\ Alone' /\ \A d \in Commands : Sound(d)' /\ Copied(d)' /\ Deletable(d)'
  <2>1. CASE Set(c, next)
    <3> HIDE DEF names
    <3>1. Rank[q] \in Nat
      BY BlobMovesAssumption
    <3>2. next \in Command
      BY <1>1, <1>4, <3>1 DEF Command
    <3>3. next.pc = "listing" /\ next.names = names /\ next.left = cmd[c].left
      BY <1>1 DEF Command, ListPage
    <3>4. cmd[c].names \subseteq names
      BY DEF names
    <3> HIDE DEF next
    <3>5. /\ cmd' \in [Commands -> Command]
          /\ cmd'[c] = next
          /\ \A d \in Commands : d # c => cmd'[d] = cmd[d]
      BY <2>1, <3>2, <1>2, SetOne
    <3>6. ~Refused(c)'
      BY <1>1 DEF Refused
    <3>7. Sound(c)'
      BY <3>3, <3>4, <3>5, <3>6, <1>1, <1>4 DEF Sound
    <3>8. Copied(c)' /\ Deletable(c)'
      BY <3>3, <3>5 DEF Copied, Deletable
    <3> QED
      BY <3>5, <3>7, <3>8, <1>1, Others
  <2>2. CASE End(c, "failed")
    BY <2>2, <1>1, EndKeeps
  <2>3. CASE Start(c, cmd[c], names)
    <3> HIDE DEF names
    <3> QED
      BY <2>3, <1>1, <1>2, <1>4, StartKeeps
  <2> QED
    BY <2>1, <2>2, <2>3, <1>3
<1>6. TypeOK' /\ NothingLost'
  BY <1>2, <1>5, SameStore DEF TypeOK
<1> QED
  BY <1>5, <1>6 DEF IInv

LEMMA FailKeeps ==
  ASSUME IInv, NEW c \in Commands, Fail(c)
  PROVE  IInv'
<1>1. \A d \in Commands : Active(d) => d = c
  BY DEF Fail, IInv, Alone
<1>2. /\ UNCHANGED <<store, born, given, unasked>>
      /\ TypeOK /\ NothingLost /\ End(c, "failed")
  BY DEF Fail, IInv
<1>3. /\ cmd' \in [Commands -> Command]
      /\ Alone' /\ \A d \in Commands : Sound(d)' /\ Copied(d)' /\ Deletable(d)'
  BY <1>1, <1>2, EndKeeps
<1>4. TypeOK' /\ NothingLost'
  BY <1>2, <1>3, SameStore DEF TypeOK
<1> QED
  BY <1>3, <1>4 DEF IInv

(* What a copy that is carried out leaves in place: what was copied before. *)
LEMMA CopyKeepsCopied ==
  ASSUME IInv, InTurn, NEW c \in Commands, cmd[c].pc = "copying",
         NEW p \in cmd[c].left, CarryOutCopy(c, p), born' = born, Kind[c] = "rename",
         NEW q \in cmd[c].names, q \notin cmd[c].left \ {p}
  PROVE  store'[q] # Absent /\ store'[Dest(c, q)] = store'[q]
<1>1. /\ p \in Paths /\ q \in Paths /\ Named(c, p) /\ Named(c, q) /\ ~Refused(c)
      /\ Copied(c)
  BY DEF IInv, Sound, TypeOK, Command, Active
<1>2. Dest(c, p) # q /\ Dest(c, q) # q /\ Dest(c, p) # p
  BY <1>1, DestApart
<1>3. /\ store[p] # Absent
      /\ store'[Dest(c, p)] = store[p]
      /\ \A r \in Paths : r # Dest(c, p) => store'[r] = store[r]
  BY CopyEffect
<1>4. store'[q] = store[q]
  BY <1>1, <1>2, <1>3
<1>5. CASE q = p
  BY <1>3, <1>4, <1>5
<1>6. CASE q # p
  <2>1. store[q] # Absent /\ store[Dest(c, q)] = store[q]
    BY <1>1, <1>6 DEF Copied
  <2>2. Dest(c, q) # Dest(c, p)
    BY <1>1, <1>6, DestInjective
  <2>3. Dest(c, q) \in Paths
    BY <1>1, BlobMovesAssumption
  <2> QED
    BY <2>1, <2>2, <2>3, <1>3, <1>4
<1> QED
  BY <1>5, <1>6

(* What a deletion that is carried out leaves in place: what is yet to go. *)
LEMMA DeleteKeepsDeletable ==
  ASSUME IInv, InTurn, NEW c \in Commands, cmd[c].pc = "deleting",
         NEW p \in cmd[c].left, CarryOutDelete(c, p), born' = born, Kind[c] = "rename",
         NEW q \in cmd[c].names, store'[q] # Absent
  PROVE  store'[Dest(c, q)] = store'[q]
<1>1. /\ p \in Paths /\ q \in Paths /\ Named(c, p) /\ Named(c, q) /\ ~Refused(c)
      /\ Deletable(c)
  BY DEF IInv, Sound, TypeOK, Command, Active
<1>2. /\ store'[p] = Absent
      /\ \A r \in Paths : r # p => store'[r] = store[r]
  BY DeleteEffect
<1>3. q # p /\ store'[q] = store[q]
  BY <1>1, <1>2
<1>4. Dest(c, q) # p /\ Dest(c, q) \in Paths
  BY <1>1, DestApart, BlobMovesAssumption
<1> QED
  BY <1>1, <1>2, <1>3, <1>4 DEF Deletable

LEMMA CopyKeeps ==
  ASSUME IInv, InTurn, NEW c \in Commands, Copy(c)
  PROVE  IInv'
<1>1. PICK p \in cmd[c].left :
        /\ CarryOutCopy(c, p)
        /\ IF cmd[c].left # {p} THEN Set(c, [cmd[c] EXCEPT !.left = @ \ {p}])
           ELSE IF Kind[c] = "rename"
           THEN Set(c, [cmd[c] EXCEPT !.pc = "deleting", !.left = cmd[c].names])
           ELSE End(c, "ok")
  BY DEF Copy
<1>2. /\ cmd[c].pc = "copying" /\ born' = born
      /\ TypeOK /\ Sound(c) /\ cmd[c] \in Command
      /\ \A d \in Commands : Active(d) => d = c
      /\ ~Refused(c) /\ Kind[c] # "delete"
  BY DEF Copy, IInv, TypeOK, Alone, Active, Sound
<1>3. ~Refused(c)'
  BY <1>2 DEF Refused
<1>4. ASSUME Kind[c] = "rename", NEW q \in cmd[c].names, q \notin cmd[c].left \ {p}
      PROVE  store'[q] # Absent /\ store'[Dest(c, q)] = store'[q]
  BY <1>1, <1>2, <1>4, CopyKeepsCopied
<1>5. /\ cmd' \in [Commands -> Command]
      /\ Alone' /\ \A d \in Commands : Sound(d)' /\ Copied(d)' /\ Deletable(d)'
  <2>1. CASE cmd[c].left # {p}
    <3> DEFINE next == [cmd[c] EXCEPT !.left = @ \ {p}]
    <3>1. /\ next \in Command
          /\ next.pc = "copying" /\ next.names = cmd[c].names /\ next.left = cmd[c].left \ {p}
      BY <1>2 DEF Command
    <3>2. Set(c, next)
      BY <1>1, <2>1
    <3> HIDE DEF next
    <3>3. /\ cmd' \in [Commands -> Command]
          /\ cmd'[c] = next
          /\ \A d \in Commands : d # c => cmd'[d] = cmd[d]
      BY <3>1, <3>2, <1>2, SetOne
    <3>4. Sound(c)'
      BY <3>1, <3>3, <1>2, <1>3 DEF Sound
    <3>5. Copied(c)' /\ Deletable(c)'
      BY <3>1, <3>3, <1>4 DEF Copied, Deletable
    <3> QED
      BY <3>3, <3>4, <3>5, <1>2, Others
  <2>2. CASE cmd[c].left = {p} /\ Kind[c] = "rename"
    <3> DEFINE next == [cmd[c] EXCEPT !.pc = "deleting", !.left = cmd[c].names]
    <3>1. /\ next \in Command
          /\ next.pc = "deleting" /\ next.names = cmd[c].names /\ next.left = cmd[c].names
      BY <1>2 DEF Command
    <3>2. Set(c, next)
      BY <1>1, <2>2
    <3> HIDE DEF next
    <3>3. /\ cmd' \in [Commands -> Command]
          /\ cmd'[c] = next
          /\ \A d \in Commands : d # c => cmd'[d] = cmd[d]
      BY <3>1, <3>2, <1>2, SetOne
    <3>4. Sound(c)'
      BY <2>2, <3>1, <3>3, <1>2, <1>3 DEF Sound
    <3>5. Copied(c)' /\ Deletable(c)'
      BY <2>2, <3>1, <3>3, <1>4 DEF Copied, Deletable
    <3> QED
      BY <3>3, <3>4, <3>5, <1>2, Others
  <2>3. CASE cmd[c].left = {p} /\ Kind[c] # "rename"
    BY <2>3, <1>1, <1>2, EndKeeps
  <2> QED
    BY <2>1, <2>2, <2>3
<1>6. /\ store' \in [Paths -> Paths \cup {Absent}]
      /\ given' \subseteq Paths /\ unasked' \subseteq given'
      /\ NothingLost'
  BY <1>1, <1>2, CopyEffect
<1> QED
  BY <1>2, <1>5, <1>6 DEF IInv, TypeOK

LEMMA DeleteKeeps ==
  ASSUME IInv, InTurn, NEW c \in Commands, Delete(c)
  PROVE  IInv'
<1>1. PICK p \in cmd[c].left :
        /\ CarryOutDelete(c, p)
        /\ IF cmd[c].left # {p} THEN Set(c, [cmd[c] EXCEPT !.left = @ \ {p}])
           ELSE End(c, "ok")
  BY DEF Delete
<1>2. /\ cmd[c].pc = "deleting" /\ born' = born
      /\ TypeOK /\ Sound(c) /\ cmd[c] \in Command
      /\ \A d \in Commands : Active(d) => d = c
      /\ ~Refused(c) /\ Kind[c] # "copy"
  BY DEF Delete, IInv, TypeOK, Alone, Active, Sound
<1>3. ~Refused(c)'
  BY <1>2 DEF Refused
<1>4. ASSUME Kind[c] = "rename", NEW q \in cmd[c].names, store'[q] # Absent
      PROVE  store'[Dest(c, q)] = store'[q]
  BY <1>1, <1>2, <1>4, DeleteKeepsDeletable
<1>5. /\ cmd' \in [Commands -> Command]
      /\ Alone' /\ \A d \in Commands : Sound(d)' /\ Copied(d)' /\ Deletable(d)'
  <2>1. CASE cmd[c].left # {p}
    <3> DEFINE next == [cmd[c] EXCEPT !.left = @ \ {p}]
    <3>1. /\ next \in Command
          /\ next.pc = "deleting" /\ next.names = cmd[c].names /\ next.left = cmd[c].left \ {p}
      BY <1>2 DEF Command
    <3>2. Set(c, next)
      BY <1>1, <2>1
    <3> HIDE DEF next
    <3>3. /\ cmd' \in [Commands -> Command]
          /\ cmd'[c] = next
          /\ \A d \in Commands : d # c => cmd'[d] = cmd[d]
      BY <3>1, <3>2, <1>2, SetOne
    <3>4. Sound(c)'
      BY <3>1, <3>3, <1>2, <1>3 DEF Sound
    <3>5. Copied(c)' /\ Deletable(c)'
      BY <3>1, <3>3, <1>4 DEF Copied, Deletable
    <3> QED
      BY <3>3, <3>4, <3>5, <1>2, Others
  <2>2. CASE cmd[c].left = {p}
    BY <2>2, <1>1, <1>2, EndKeeps
  <2> QED
    BY <2>1, <2>2
<1>6. /\ store' \in [Paths -> Paths \cup {Absent}]
      /\ given' \subseteq Paths /\ unasked' \subseteq given'
      /\ NothingLost'
  BY <1>1, <1>2, DeleteEffect
<1> QED
  BY <1>2, <1>5, <1>6 DEF IInv, TypeOK

LEMMA LoseAnswerKeeps ==
  ASSUME IInv, InTurn, NEW c \in Commands, LoseAnswer(c)
  PROVE  IInv'
<1>1. PICK p \in cmd[c].left :
        \/ cmd[c].pc = "copying" /\ CarryOutCopy(c, p)
        \/ cmd[c].pc = "deleting" /\ CarryOutDelete(c, p)
  BY DEF LoseAnswer
<1>2. /\ cmd' = cmd /\ born' = born
      /\ TypeOK /\ Sound(c) /\ Copied(c) /\ Deletable(c)
      /\ cmd' \in [Commands -> Command]
      /\ \A d \in Commands : Active(d) => d = c
  BY <1>1 DEF LoseAnswer, IInv, TypeOK, Alone, Active
<1>3. Sound(c)'
  BY <1>2 DEF Sound, Refused, Active
<1>4. /\ store' \in [Paths -> Paths \cup {Absent}]
      /\ given' \subseteq Paths /\ unasked' \subseteq given'
      /\ NothingLost'
  BY <1>1, <1>2, CopyEffect, DeleteEffect
<1>5. Copied(c)' /\ Deletable(c)'
  <2>1. CASE cmd[c].pc = "copying" /\ CarryOutCopy(c, p)
    <3>1. ASSUME Kind[c] = "rename", NEW q \in cmd[c].names \ cmd[c].left
          PROVE  store'[q] # Absent /\ store'[Dest(c, q)] = store'[q]
      BY <2>1, <3>1, <1>2, CopyKeepsCopied
    <3> QED
      BY <2>1, <3>1, <1>2 DEF Copied, Deletable
  <2>2. CASE cmd[c].pc = "deleting" /\ CarryOutDelete(c, p)
    <3>1. ASSUME Kind[c] = "rename", NEW q \in cmd[c].names, store'[q] # Absent
          PROVE  store'[Dest(c, q)] = store'[q]
      BY <2>2, <3>1, <1>2, DeleteKeepsDeletable
    <3> QED
      BY <2>2, <3>1, <1>2 DEF Copied, Deletable
  <2> QED
    BY <2>1, <2>2, <1>1
<1>6. Alone' /\ \A d \in Commands : Sound(d)' /\ Copied(d)' /\ Deletable(d)'
  BY <1>2, <1>3, <1>5, Others
<1> QED
  BY <1>2, <1>4, <1>6 DEF IInv, TypeOK

LEMMA CreateKeeps ==
  ASSUME IInv, NEW p \in Paths, Create(p)
  PROVE  IInv'
<1>1. /\ store[p] = Absent /\ store' = [store EXCEPT ![p] = p]
      /\ born' = born \cup {p} /\ UNCHANGED <<cmd, given, unasked>>
      /\ \A c \in Commands : p \notin cmd[c].names
  BY DEF Create
<1>2. /\ store \in [Paths -> Paths \cup {Absent}]
      /\ cmd \in [Commands -> Command] /\ born \subseteq Paths
      /\ TypeOK
  BY DEF IInv, TypeOK
<1>3. /\ store' \in [Paths -> Paths \cup {Absent}]
      /\ store'[p] = p
      /\ \A q \in Paths : q # p => store'[q] = store[q]
  BY <1>1, <1>2
<1>4. TypeOK'
  BY <1>1, <1>2, <1>3 DEF TypeOK
<1>5. Alone' /\ \A c \in Commands : Sound(c)'
  BY <1>1 DEF IInv, Alone, Sound, Active, Refused
<1>6. ASSUME NEW c \in Commands, Kind[c] = "rename",
             NEW q \in cmd[c].names, store[q] # Absent, store[Dest(c, q)] = store[q]
      PROVE  store'[q] # Absent /\ store'[Dest(c, q)] = store'[q]
  <2>1. q \in Paths /\ Named(c, q)
    BY <1>2 DEF IInv, Sound, Command
  <2>2. Dest(c, q) \in Paths
    BY <1>6, <2>1, BlobMovesAssumption
  <2>3. q # p /\ Dest(c, q) # p
    BY <1>1, <1>6
  <2> QED
    BY <1>3, <1>6, <2>1, <2>2, <2>3
<1>7. ASSUME NEW c \in Commands, NEW q \in cmd[c].names
      PROVE  store'[q] = store[q]
  BY <1>1, <1>2, <1>3 DEF Command
<1>8. \A c \in Commands : Copied(c)' /\ Deletable(c)'
  BY <1>1, <1>6, <1>7 DEF IInv, Copied, Deletable
<1>9. ASSUME NEW v \in born' \ given'
      PROVE  \E q \in Paths : store'[q] = v
  <2>1. CASE v = p
    BY <2>1, <1>3
  <2>2. CASE v # p
    <3>1. v # Absent
      BY <1>1, <1>2, BlobMovesAssumption
    <3>2. PICK q \in Paths : store[q] = v
      BY <2>2, <1>1 DEF IInv, NothingLost
    <3> QED
      BY <3>1, <3>2, <1>1, <1>3
  <2> QED
    BY <2>1, <2>2
<1>10. NothingLost'
  BY <1>9 DEF NothingLost
<1> QED
  BY <1>4, <1>5, <1>8, <1>10 DEF IInv

LEMMA NextIInv ==
  ASSUME IInv, InTurn, [Next]_vars
  PROVE  IInv'
<1>1. CASE UNCHANGED vars
  BY <1>1 DEF vars, IInv, TypeOK, Alone, Active, Sound, Refused, Copied, Deletable, NothingLost
<1>2. ASSUME NEW c \in Commands, Step(c)
      PROVE  IInv'
  <2>1. CASE Begin(c)
    BY <2>1, BeginKeeps
  <2>2. CASE ListPage(c)
    BY <2>2, ListPageKeeps
  <2>3. CASE Copy(c)
    BY <2>3, CopyKeeps
  <2>4. CASE Delete(c)
    BY <2>4, DeleteKeeps
  <2>5. CASE LoseAnswer(c)
    BY <2>5, LoseAnswerKeeps
  <2>6. CASE Fail(c)
    BY <2>6, FailKeeps
  <2> QED
    BY <2>1, <2>2, <2>3, <2>4, <2>5, <2>6, <1>2 DEF Step
<1>3. ASSUME NEW p \in Paths, Create(p)
      PROVE  IInv'
  BY <1>3, CreateKeeps
<1> QED
  BY <1>1, <1>2, <1>3 DEF Next

(* The rename commands: when commands are given in turn and no name changes  *)
(* into one above or below it, no content is ever lost but by a delete or an *)
(* overwriting copy, however the listing is paged and wherever it fails.     *)
THEOREM SpecNothingLost == InTurn => (Spec => []NothingLost)
<1>1. IInv => NothingLost
  BY DEF IInv
<1>2. InTurn /\ IInv /\ [Next]_vars => IInv'
  BY NextIInv
<1>3. CASE InTurn
  <2>1. IInv /\ [Next]_vars => IInv'
    BY <1>2, <1>3
  <2> QED
    BY InitIInv, <2>1, <1>1, PTL DEF Spec
<1> QED
  BY <1>3

(* The shape of the commands' state. *)
THEOREM SpecTypeOK == InTurn => (Spec => []TypeOK)
<1>1. IInv => TypeOK
  BY DEF IInv
<1>2. CASE InTurn
  <2>1. IInv /\ [Next]_vars => IInv'
    BY <1>2, NextIInv
  <2> QED
    BY InitIInv, <2>1, <1>1, PTL DEF Spec
<1> QED
  BY <1>2
-----------------------------------------------------------------------------
(* What a command that reports success has done.                           *)

(* Neither a rename nor a copy is into a folder that contains its source. *)
TargetsApart ==
  InTurn /\ \A c \in Commands : Kind[c] # "delete" => ~StartsWith(Source[c], Target[c])

(* Where a blob that was there when the command began stands: it is listed or *)
(* ahead of the listing, and then copied, deleted or still among the rest.    *)
Followed(c, p) ==
  /\ Named(c, p)
  /\ cmd[c].pc = "listing" =>
       /\ store[p] = cmd[c].found[p]
       /\ p \in cmd[c].names \/ cmd[c].covered < Rank[p]
  /\ cmd[c].pc = "copying" =>
       /\ p \in cmd[c].names
       /\ store[p] = cmd[c].found[p]
       /\ p \notin cmd[c].left => store[Dest(c, p)] = cmd[c].found[p]
  /\ cmd[c].pc = "deleting" =>
       /\ p \in cmd[c].names
       /\ p \notin cmd[c].left => store[p] = Absent
       /\ Kind[c] # "delete" => store[Dest(c, p)] = cmd[c].found[p]

FoundInv(c) ==
  /\ ~Active(c) => cmd[c].names = {} /\ cmd[c].covered = 0
  /\ \A p \in Paths : cmd[c].found[p] # Absent => Followed(c, p)

(* What DoneMeansAll says of one command *)
AllDone(c) ==
  \A p \in Paths :
    cmd[c].found[p] # Absent =>
      /\ Kind[c] # "copy" => store'[p] = Absent
      /\ Kind[c] # "delete" => store'[Dest(c, p)] = cmd[c].found[p]

LEMMA EndFound ==
  ASSUME TypeOK, NEW c \in Commands, NEW result \in {"ok", "failed"}, End(c, result)
  PROVE  FoundInv(c)' /\ cmd'[c].pc = result
<1> DEFINE state == [pc |-> result, covered |-> 0, names |-> {}, left |-> {}, found |-> Empty]
<1>1. cmd'[c] = state
  BY DEF End, Set, TypeOK
<1>2. /\ cmd'[c].pc = result /\ cmd'[c].names = {} /\ cmd'[c].covered = 0
      /\ cmd'[c].found = Empty
  BY <1>1
<1>3. \A p \in Paths : cmd'[c].found[p] = Absent
  BY <1>2 DEF Empty
<1> QED
  BY <1>2, <1>3 DEF FoundInv

(* The blobs a command has found become those it copies or deletes. *)
LEMMA StartFound ==
  ASSUME TypeOK, NEW c \in Commands, NEW state \in Command, NEW names \in SUBSET Paths,
         Start(c, state, names), UNCHANGED store,
         \A p \in Paths : state.found[p] # Absent =>
           p \in names /\ Named(c, p) /\ store[p] = state.found[p]
  PROVE  FoundInv(c)' /\ cmd'[c].pc # "ok"
<1> DEFINE next == [state EXCEPT !.pc = IF Kind[c] = "delete" THEN "deleting" ELSE "copying",
                                 !.names = names, !.left = names]
<1>1. /\ next.pc = IF Kind[c] = "delete" THEN "deleting" ELSE "copying"
      /\ next.names = names /\ next.left = names /\ next.found = state.found
  BY DEF Command
<1>2. cmd'[c] = next
  BY DEF Start, Set, TypeOK
<1> HIDE DEF next
<1>3. Active(c)'
  BY <1>1, <1>2 DEF Active
<1>4. \A p \in Paths : cmd'[c].found[p] # Absent => Followed(c, p)'
  BY <1>1, <1>2 DEF Followed
<1> QED
  BY <1>1, <1>2, <1>3, <1>4 DEF FoundInv

(* A command that is not under way follows nothing. *)
LEMMA OthersFound ==
  ASSUME NEW c \in Commands, ~Active(c), FoundInv(c), cmd'[c] = cmd[c]
  PROVE  FoundInv(c)'
BY DEF FoundInv, Followed, Active

LEMMA BeginFound ==
  ASSUME IInv, NEW c \in Commands, FoundInv(c), Begin(c)
  PROVE  FoundInv(c)' /\ cmd'[c].pc # "ok"
<1> DEFINE found == [p \in Paths |-> IF Named(c, p) THEN store[p] ELSE Absent]
           begun == [cmd[c] EXCEPT !.found = found]
<1>1. /\ TypeOK /\ cmd[c] \in Command /\ store \in [Paths -> Paths \cup {Absent}]
      /\ UNCHANGED store /\ ~Active(c)
      /\ cmd[c].names = {} /\ cmd[c].covered = 0
  BY DEF IInv, TypeOK, Begin, FoundInv
<1>2. found \in [Paths -> Paths \cup {Absent}]
  BY <1>1
<1>3. \A p \in Paths : found[p] # Absent => Named(c, p) /\ store[p] = found[p]
  OBVIOUS
<1> HIDE DEF found
<1>4. begun \in Command /\ begun.found = found /\ begun.covered = 0 /\ begun.names = {}
  BY <1>1, <1>2 DEF Command
<1>5. IF Refused(c) THEN End(c, "failed")
      ELSE IF Folder[c] THEN Set(c, [begun EXCEPT !.pc = "listing"])
      ELSE Start(c, begun, {Source[c]})
  BY DEF Begin, found
<1>6. CASE Refused(c)
  BY <1>1, <1>5, <1>6, EndFound
<1>7. CASE ~Refused(c) /\ Folder[c]
  <2> DEFINE next == [begun EXCEPT !.pc = "listing"]
  <2>1. /\ next.pc = "listing" /\ next.found = found /\ next.covered = 0
        /\ next \in Command
    BY <1>4 DEF Command
  <2>2. cmd'[c] = next
    BY <1>1, <1>5, <1>7 DEF Set, TypeOK
  <2> HIDE DEF next
  <2>3. \A p \in Paths : 0 < Rank[p]
    BY BlobMovesAssumption
  <2>4. \A p \in Paths : cmd'[c].found[p] # Absent => Followed(c, p)'
    BY <1>1, <1>3, <2>1, <2>2, <2>3 DEF Followed
  <2> QED
    BY <2>1, <2>2, <2>4 DEF FoundInv, Active
<1>8. CASE ~Refused(c) /\ ~Folder[c]
  <2>1. Source[c] \in Paths
    BY <1>8, BlobMovesAssumption
  <2>2. \A p \in Paths : Named(c, p) => p \in {Source[c]}
    BY <1>8 DEF Named
  <2> HIDE DEF begun
  <2>3. \A p \in Paths : begun.found[p] # Absent =>
          p \in {Source[c]} /\ Named(c, p) /\ store[p] = begun.found[p]
    BY <1>3, <1>4, <2>2
  <2>4. Start(c, begun, {Source[c]})
    BY <1>5, <1>8
  <2> QED
    BY <1>1, <1>4, <2>1, <2>3, <2>4, StartFound
<1> QED
  BY <1>6, <1>7, <1>8

(* No page is left out: when the last one is there, every blob is listed. *)
LEMMA ListPageFound ==
  ASSUME IInv, NEW c \in Commands, FoundInv(c), ListPage(c)
  PROVE  FoundInv(c)' /\ cmd'[c].pc # "ok"
<1>1. /\ TypeOK /\ cmd[c] \in Command /\ store \in [Paths -> Paths \cup {Absent}]
      /\ UNCHANGED store /\ cmd[c].pc = "listing"
  BY DEF IInv, TypeOK, ListPage
<1>2. PICK q \in Paths :
        /\ cmd[c].covered < Rank[q]
        /\ LET names == cmd[c].names \cup Page(c, Rank[q])
               more == \E p \in Paths : Rank[q] < Rank[p]
           IN  IF more THEN Set(c, [cmd[c] EXCEPT !.covered = Rank[q], !.names = names])
               ELSE IF names = {} THEN End(c, "failed")
               ELSE Start(c, cmd[c], names)
  BY DEF ListPage
<1> DEFINE names == cmd[c].names \cup Page(c, Rank[q])
<1>3. names \in SUBSET Paths
  BY <1>1 DEF Page, Command
<1>4. /\ cmd[c].covered \in Nat
      /\ \A p \in Paths : Rank[p] \in Nat
  BY <1>1, BlobMovesAssumption DEF Command
<1>5. ASSUME NEW p \in Paths, cmd[c].found[p] # Absent
      PROVE  /\ Named(c, p) /\ store[p] = cmd[c].found[p]
             /\ p \in names \/ Rank[q] < Rank[p]
  <2>1. Named(c, p) /\ store[p] = cmd[c].found[p] /\ (p \in cmd[c].names \/ cmd[c].covered < Rank[p])
    BY <1>1, <1>5 DEF FoundInv, Followed
  <2>2. CASE Rank[p] <= Rank[q] /\ cmd[c].covered < Rank[p]
    BY <2>1, <2>2, <1>5 DEF Page
  <2> QED
    BY <2>1, <2>2, <1>4
<1> HIDE DEF names
<1>6. CASE \E p \in Paths : Rank[q] < Rank[p]
  <2> DEFINE next == [cmd[c] EXCEPT !.covered = Rank[q], !.names = names]
  <2>1. /\ next.pc = "listing" /\ next.covered = Rank[q] /\ next.names = names
        /\ next.found = cmd[c].found
    BY <1>1 DEF Command
  <2>2. cmd'[c] = next
    BY <1>1, <1>2, <1>6 DEF Set, TypeOK, names
  <2> HIDE DEF next
  <2>3. \A p \in Paths : cmd'[c].found[p] # Absent => Followed(c, p)'
    BY <1>1, <1>5, <2>1, <2>2 DEF Followed
  <2> QED
    BY <2>1, <2>2, <2>3 DEF FoundInv, Active
<1>7. CASE ~\E p \in Paths : Rank[q] < Rank[p]
  <2>1. End(c, "failed") \/ Start(c, cmd[c], names)
    BY <1>2, <1>7 DEF names
  <2>2. \A p \in Paths : cmd[c].found[p] # Absent =>
          p \in names /\ Named(c, p) /\ store[p] = cmd[c].found[p]
    BY <1>5, <1>7
  <2>3. CASE End(c, "failed")
    BY <2>3, <1>1, EndFound
  <2>4. CASE Start(c, cmd[c], names)
    BY <2>2, <2>4, <1>1, <1>3, StartFound
  <2> QED
    BY <2>1, <2>3, <2>4
<1> QED
  BY <1>6, <1>7

(* A copy that is carried out puts its blob in place, and touches no other. *)
LEMMA CopyPlaces ==
  ASSUME IInv, TargetsApart, NEW c \in Commands, FoundInv(c), cmd[c].pc = "copying",
         NEW p \in cmd[c].left, CarryOutCopy(c, p), born' = born,
         NEW q \in Paths, cmd[c].found[q] # Absent
  PROVE  /\ Named(c, q) /\ q \in cmd[c].names
         /\ store'[q] = cmd[c].found[q]
         /\ q \notin cmd[c].left \ {p} => store'[Dest(c, q)] = cmd[c].found[q]
<1>1. /\ p \in Paths /\ Named(c, p) /\ Named(c, q) /\ ~Refused(c) /\ Kind[c] # "delete"
      /\ InTurn
  BY DEF IInv, Sound, TypeOK, Command, Active, FoundInv, Followed, TargetsApart
<1>2. Dest(c, p) # q
  BY <1>1, TargetApart DEF TargetsApart
<1>3. /\ store'[Dest(c, p)] = store[p]
      /\ \A r \in Paths : r # Dest(c, p) => store'[r] = store[r]
  BY <1>1, CopyEffect
<1>4. /\ q \in cmd[c].names /\ store[q] = cmd[c].found[q]
      /\ q \notin cmd[c].left => store[Dest(c, q)] = cmd[c].found[q]
  BY DEF FoundInv, Followed
<1>5. store'[q] = cmd[c].found[q]
  BY <1>2, <1>3, <1>4
<1>6. CASE q = p
  BY <1>1, <1>3, <1>4, <1>5, <1>6
<1>7. CASE q # p
  <2>1. Dest(c, q) # Dest(c, p) /\ Dest(c, q) \in Paths
    BY <1>1, <1>7, DestInjective, BlobMovesAssumption
  <2> QED
    BY <2>1, <1>1, <1>3, <1>4, <1>5, <1>7
<1> QED
  BY <1>6, <1>7

(* A deletion that is carried out removes its blob, and touches no other. *)
LEMMA DeleteRemoves ==
  ASSUME IInv, TargetsApart, NEW c \in Commands, FoundInv(c), cmd[c].pc = "deleting",
         NEW p \in cmd[c].left, CarryOutDelete(c, p), born' = born,
         NEW q \in Paths, cmd[c].found[q] # Absent
  PROVE  /\ Named(c, q) /\ q \in cmd[c].names
         /\ q \notin cmd[c].left \ {p} => store'[q] = Absent
         /\ Kind[c] # "delete" => store'[Dest(c, q)] = cmd[c].found[q]
<1>1. /\ p \in Paths /\ Named(c, p) /\ Named(c, q) /\ ~Refused(c)
      /\ InTurn
  BY DEF IInv, Sound, TypeOK, Command, Active, FoundInv, Followed, TargetsApart
<1>2. /\ store'[p] = Absent
      /\ \A r \in Paths : r # p => store'[r] = store[r]
  BY <1>1, DeleteEffect
<1>3. /\ q \in cmd[c].names
      /\ q \notin cmd[c].left => store[q] = Absent
      /\ Kind[c] # "delete" => store[Dest(c, q)] = cmd[c].found[q]
  BY DEF FoundInv, Followed
<1>4. q \notin cmd[c].left \ {p} => store'[q] = Absent
  BY <1>2, <1>3
<1>5. ASSUME Kind[c] # "delete"
      PROVE  store'[Dest(c, q)] = cmd[c].found[q]
  <2>1. Dest(c, q) # p
    BY <1>1, <1>5, TargetApart DEF TargetsApart
  <2>2. Dest(c, q) \in Paths
    BY <1>1, <1>5, BlobMovesAssumption
  <2> QED
    BY <2>1, <2>2, <1>2, <1>3, <1>5
<1> QED
  BY <1>1, <1>3, <1>4, <1>5

LEMMA CopyFound ==
  ASSUME IInv, TargetsApart, NEW c \in Commands, FoundInv(c), Copy(c)
  PROVE  FoundInv(c)' /\ (cmd'[c].pc = "ok" => AllDone(c))
<1>1. PICK p \in cmd[c].left :
        /\ CarryOutCopy(c, p)
        /\ IF cmd[c].left # {p} THEN Set(c, [cmd[c] EXCEPT !.left = @ \ {p}])
           ELSE IF Kind[c] = "rename"
           THEN Set(c, [cmd[c] EXCEPT !.pc = "deleting", !.left = cmd[c].names])
           ELSE End(c, "ok")
  BY DEF Copy
<1>2. /\ cmd[c].pc = "copying" /\ born' = born /\ TypeOK /\ cmd[c] \in Command
      /\ Kind[c] \in {"rename", "copy"}
  BY BlobMovesAssumption DEF Copy, IInv, TypeOK, Sound
<1>3. ASSUME NEW q \in Paths, cmd[c].found[q] # Absent
      PROVE  /\ Named(c, q) /\ q \in cmd[c].names
             /\ store'[q] = cmd[c].found[q]
             /\ q \notin cmd[c].left \ {p} => store'[Dest(c, q)] = cmd[c].found[q]
  BY <1>1, <1>2, <1>3, CopyPlaces
<1>4. CASE cmd[c].left # {p}
  <2> DEFINE next == [cmd[c] EXCEPT !.left = @ \ {p}]
  <2>1. /\ next.pc = "copying" /\ next.names = cmd[c].names /\ next.left = cmd[c].left \ {p}
        /\ next.found = cmd[c].found
    BY <1>2 DEF Command
  <2>2. cmd'[c] = next
    BY <1>1, <1>2, <1>4 DEF Set, TypeOK
  <2> HIDE DEF next
  <2>3. \A q \in Paths : cmd'[c].found[q] # Absent => Followed(c, q)'
    BY <1>3, <2>1, <2>2 DEF Followed
  <2> QED
    BY <2>1, <2>2, <2>3 DEF FoundInv, Active
<1>5. CASE cmd[c].left = {p} /\ Kind[c] = "rename"
  <2> DEFINE next == [cmd[c] EXCEPT !.pc = "deleting", !.left = cmd[c].names]
  <2>1. /\ next.pc = "deleting" /\ next.names = cmd[c].names /\ next.left = cmd[c].names
        /\ next.found = cmd[c].found
    BY <1>2 DEF Command
  <2>2. cmd'[c] = next
    BY <1>1, <1>2, <1>5 DEF Set, TypeOK
  <2> HIDE DEF next
  <2>3. \A q \in Paths : cmd'[c].found[q] # Absent => Followed(c, q)'
    BY <1>3, <1>5, <2>1, <2>2 DEF Followed
  <2> QED
    BY <2>1, <2>2, <2>3 DEF FoundInv, Active
<1>6. CASE cmd[c].left = {p} /\ Kind[c] # "rename"
  <2>1. FoundInv(c)'
    BY <1>1, <1>2, <1>6, EndFound
  <2>2. AllDone(c)
    BY <1>2, <1>3, <1>6 DEF AllDone
  <2> QED
    BY <2>1, <2>2
<1> QED
  BY <1>4, <1>5, <1>6

LEMMA DeleteFound ==
  ASSUME IInv, TargetsApart, NEW c \in Commands, FoundInv(c), Delete(c)
  PROVE  FoundInv(c)' /\ (cmd'[c].pc = "ok" => AllDone(c))
<1>1. PICK p \in cmd[c].left :
        /\ CarryOutDelete(c, p)
        /\ IF cmd[c].left # {p} THEN Set(c, [cmd[c] EXCEPT !.left = @ \ {p}])
           ELSE End(c, "ok")
  BY DEF Delete
<1>2. /\ cmd[c].pc = "deleting" /\ born' = born /\ TypeOK /\ cmd[c] \in Command
  BY DEF Delete, IInv, TypeOK
<1>3. ASSUME NEW q \in Paths, cmd[c].found[q] # Absent
      PROVE  /\ Named(c, q) /\ q \in cmd[c].names
             /\ q \notin cmd[c].left \ {p} => store'[q] = Absent
             /\ Kind[c] # "delete" => store'[Dest(c, q)] = cmd[c].found[q]
  BY <1>1, <1>2, <1>3, DeleteRemoves
<1>4. CASE cmd[c].left # {p}
  <2> DEFINE next == [cmd[c] EXCEPT !.left = @ \ {p}]
  <2>1. /\ next.pc = "deleting" /\ next.names = cmd[c].names /\ next.left = cmd[c].left \ {p}
        /\ next.found = cmd[c].found
    BY <1>2 DEF Command
  <2>2. cmd'[c] = next
    BY <1>1, <1>2, <1>4 DEF Set, TypeOK
  <2> HIDE DEF next
  <2>3. \A q \in Paths : cmd'[c].found[q] # Absent => Followed(c, q)'
    BY <1>3, <2>1, <2>2 DEF Followed
  <2> QED
    BY <2>1, <2>2, <2>3 DEF FoundInv, Active
<1>5. CASE cmd[c].left = {p}
  <2>1. FoundInv(c)'
    BY <1>1, <1>2, <1>5, EndFound
  <2>2. AllDone(c)
    BY <1>3, <1>5 DEF AllDone
  <2> QED
    BY <2>1, <2>2
<1> QED
  BY <1>4, <1>5

LEMMA LoseAnswerFound ==
  ASSUME IInv, TargetsApart, NEW c \in Commands, FoundInv(c), LoseAnswer(c)
  PROVE  FoundInv(c)' /\ cmd'[c].pc # "ok"
<1>1. PICK p \in cmd[c].left :
        \/ cmd[c].pc = "copying" /\ CarryOutCopy(c, p)
        \/ cmd[c].pc = "deleting" /\ CarryOutDelete(c, p)
  BY DEF LoseAnswer
<1>2. cmd' = cmd /\ born' = born
  BY DEF LoseAnswer
<1>3. CASE cmd[c].pc = "copying" /\ CarryOutCopy(c, p)
  <2>1. ASSUME NEW q \in Paths, cmd[c].found[q] # Absent
        PROVE  Followed(c, q)'
    <3>1. /\ Named(c, q) /\ q \in cmd[c].names
          /\ store'[q] = cmd[c].found[q]
          /\ q \notin cmd[c].left \ {p} => store'[Dest(c, q)] = cmd[c].found[q]
      BY <1>2, <1>3, <2>1, CopyPlaces
    <3> QED
      BY <3>1, <1>2, <1>3 DEF Followed
  <2> QED
    BY <2>1, <1>2, <1>3 DEF FoundInv, Active
<1>4. CASE cmd[c].pc = "deleting" /\ CarryOutDelete(c, p)
  <2>1. ASSUME NEW q \in Paths, cmd[c].found[q] # Absent
        PROVE  Followed(c, q)'
    <3>1. /\ Named(c, q) /\ q \in cmd[c].names
          /\ q \notin cmd[c].left \ {p} => store'[q] = Absent
          /\ Kind[c] # "delete" => store'[Dest(c, q)] = cmd[c].found[q]
      BY <1>2, <1>4, <2>1, DeleteRemoves
    <3> QED
      BY <3>1, <1>2, <1>4 DEF Followed
  <2> QED
    BY <2>1, <1>2, <1>4 DEF FoundInv, Active
<1> QED
  BY <1>1, <1>3, <1>4

(* What another client stores is in nobody's way. *)
LEMMA CreateFound ==
  ASSUME IInv, NEW p \in Paths, Create(p), NEW c \in Commands, FoundInv(c)
  PROVE  FoundInv(c)'
<1>1. /\ store[p] = Absent /\ store' = [store EXCEPT ![p] = p]
      /\ UNCHANGED cmd /\ p \notin cmd[c].names
      /\ store \in [Paths -> Paths \cup {Absent}]
  BY DEF Create, IInv, TypeOK
<1>2. \A q \in Paths : q # p => store'[q] = store[q]
  BY <1>1
<1>3. Active(c) => Sound(c) /\ ~Refused(c)
  BY DEF IInv, Sound
<1>4. ASSUME NEW q \in Paths, cmd[c].found[q] # Absent
      PROVE  Followed(c, q)'
  <2>1. Followed(c, q)
    BY <1>4 DEF FoundInv
  <2>2. CASE cmd[c].pc = "listing"
    <3>1. q # p
      BY <1>1, <1>4, <2>1, <2>2 DEF Followed
    <3> QED
      BY <3>1, <1>1, <1>2, <2>1, <2>2 DEF Followed
  <2>3. CASE cmd[c].pc = "copying"
    <3>1. q # p
      BY <1>1, <2>1, <2>3 DEF Followed
    <3>2. Kind[c] # "delete"
      BY <1>3, <2>3 DEF Sound, Active
    <3>3. Dest(c, q) \in Paths
      BY <3>2, <2>1, BlobMovesAssumption DEF Followed
    <3>4. q \notin cmd[c].left => store'[Dest(c, q)] = cmd[c].found[q]
      BY <3>3, <1>1, <1>2, <1>4, <2>1, <2>3 DEF Followed
    <3> QED
      BY <3>1, <3>4, <1>1, <1>2, <2>1, <2>3 DEF Followed
  <2>4. CASE cmd[c].pc = "deleting"
    <3>1. q # p
      BY <1>1, <2>1, <2>4 DEF Followed
    <3>2. Kind[c] # "delete" => Dest(c, q) \in Paths
      BY <2>1, BlobMovesAssumption DEF Followed
    <3>3. Kind[c] # "delete" => store'[Dest(c, q)] = cmd[c].found[q]
      BY <3>2, <1>1, <1>2, <1>4, <2>1, <2>4 DEF Followed
    <3> QED
      BY <3>1, <3>3, <1>1, <1>2, <2>1, <2>4 DEF Followed
  <2> QED
    BY <2>1, <2>2, <2>3, <2>4, <1>1 DEF Followed
<1> QED
  BY <1>1, <1>4 DEF FoundInv, Active

(* A step of a command follows its blobs on, and ends it with all dealt with. *)
LEMMA StepFound ==
  ASSUME IInv, TargetsApart, NEW c \in Commands, FoundInv(c), Step(c)
  PROVE  FoundInv(c)' /\ (cmd'[c].pc = "ok" => AllDone(c))
<1>1. CASE Begin(c)
  BY <1>1, BeginFound
<1>2. CASE ListPage(c)
  BY <1>2, ListPageFound
<1>3. CASE Copy(c)
  BY <1>3, CopyFound
<1>4. CASE Delete(c)
  BY <1>4, DeleteFound
<1>5. CASE LoseAnswer(c)
  BY <1>5, LoseAnswerFound
<1>6. CASE Fail(c)
  <2>1. TypeOK /\ End(c, "failed")
    BY <1>6 DEF Fail, IInv
  <2> QED
    BY <2>1, EndFound
<1> QED
  BY <1>1, <1>2, <1>3, <1>4, <1>5, <1>6 DEF Step

(* While one command takes a step, no other is under way, and none changes. *)
LEMMA StepAlone ==
  ASSUME IInv, InTurn, NEW c \in Commands, Step(c), NEW d \in Commands, d # c
  PROVE  ~Active(d) /\ cmd'[d] = cmd[d]
<1>1. cmd \in [Commands -> Command]
  BY DEF IInv, TypeOK
<1>2. \A state : Set(c, state) => cmd'[d] = cmd[d]
  BY <1>1 DEF Set
<1>3. cmd'[d] = cmd[d]
  <2>1. CASE Begin(c)
    BY <2>1, <1>2 DEF Begin, End, Start
  <2>2. CASE ListPage(c)
    BY <2>2, <1>2 DEF ListPage, End, Start
  <2>3. CASE Copy(c)
    BY <2>3, <1>2 DEF Copy, End
  <2>4. CASE Delete(c)
    BY <2>4, <1>2 DEF Delete, End
  <2>5. CASE LoseAnswer(c)
    BY <2>5 DEF LoseAnswer
  <2>6. CASE Fail(c)
    BY <2>6, <1>2 DEF Fail, End
  <2> QED
    BY <2>1, <2>2, <2>3, <2>4, <2>5, <2>6 DEF Step
<1>4. Begin(c) \/ Active(c)
  BY DEF Step, ListPage, Copy, Delete, LoseAnswer, Fail, Active
<1>5. ~Active(d)
  BY <1>4 DEF Begin, InTurn, IInv, Alone
<1> QED
  BY <1>3, <1>5

AllFound == \A c \in Commands : FoundInv(c)

LEMMA InitFound == Init => AllFound
<1> SUFFICES ASSUME Init, NEW c \in Commands PROVE FoundInv(c)
  BY DEF AllFound
<1>1. cmd[c].names = {} /\ cmd[c].covered = 0 /\ cmd[c].found = Empty
  BY DEF Init
<1>2. \A p \in Paths : cmd[c].found[p] = Absent
  BY <1>1 DEF Empty
<1> QED
  BY <1>1, <1>2 DEF FoundInv

LEMMA NextFound ==
  ASSUME IInv, TargetsApart, AllFound, [Next]_vars
  PROVE  AllFound' /\ \A c \in Commands : Active(c) /\ cmd'[c].pc = "ok" => AllDone(c)
<1>1. CASE UNCHANGED vars
  BY <1>1 DEF vars, AllFound, FoundInv, Followed, Active
<1>2. ASSUME NEW c \in Commands, Step(c)
      PROVE  AllFound' /\ \A d \in Commands : Active(d) /\ cmd'[d].pc = "ok" => AllDone(d)
  <2>1. FoundInv(c)' /\ (cmd'[c].pc = "ok" => AllDone(c))
    BY <1>2, StepFound DEF AllFound
  <2>2. ASSUME NEW d \in Commands, d # c
        PROVE  ~Active(d) /\ FoundInv(d)'
    BY <1>2, <2>2, StepAlone, OthersFound DEF AllFound, TargetsApart
  <2> QED
    BY <2>1, <2>2 DEF AllFound
<1>3. ASSUME NEW p \in Paths, Create(p)
      PROVE  AllFound' /\ \A c \in Commands : Active(c) /\ cmd'[c].pc = "ok" => AllDone(c)
  <2>1. AllFound'
    BY <1>3, CreateFound DEF AllFound
  <2>2. UNCHANGED cmd
    BY <1>3 DEF Create
  <2> QED
    BY <2>1, <2>2 DEF Active
<1> QED
  BY <1>1, <1>2, <1>3 DEF Next

(* When commands are given in turn and no target contains its source or is in *)
(* it, a command that reports success has dealt with every blob that was      *)
(* there when it was given: however the listing is paged, whichever answers   *)
(* are lost and whatever an earlier attempt left behind.                      *)
THEOREM SpecDoneMeansAll == TargetsApart => (Spec => DoneMeansAll)
<1> DEFINE Done == \A c \in Commands :
             Active(c) /\ cmd'[c].pc = "ok" /\ (\A d \in Beside(c) : cmd[d].pc = "idle") =>
               \A p \in Paths :
                 cmd[c].found[p] # Absent =>
                   /\ Kind[c] # "copy" => store'[p] = Absent
                   /\ Kind[c] # "delete" => store'[Dest(c, p)] = cmd[c].found[p]
<1>1. CASE TargetsApart
  <2>1. IInv /\ [Next]_vars => IInv'
    BY <1>1, NextIInv DEF TargetsApart
  <2>2. IInv /\ AllFound /\ [Next]_vars => AllFound' /\ [Done]_vars
    BY <1>1, NextFound DEF AllDone
  <2>3. DoneMeansAll <=> [][Done]_vars
    BY DEF DoneMeansAll
  <2> HIDE DEF Done
  <2> QED
    BY <2>1, <2>2, <2>3, InitIInv, InitFound, PTL DEF Spec
<1> QED
  BY <1>1
=============================================================================
