------------------------------- MODULE BlobMoves -------------------------------
(***************************************************************************)
(* The desktop's commands on folders and on single blobs: rename, copy and *)
(* delete (app/src-tauri/src/commands.rs: rename_blob_item,                *)
(* copy_blob_item, delete_blob_prefix, delete_blob).  A folder is a prefix *)
(* of names: its blobs are listed page by page, copied one by one and, for *)
(* a rename, deleted one by one once all are copied.  Nothing is undone    *)
(* when a step fails, and a command may be given again.                    *)
(*                                                                         *)
(* A name is the sequence of its segments; a content is called by the name *)
(* it was first stored under.  A request whose answer is lost may have     *)
(* been carried out, and is sent again (see Pipeline).                     *)
(***************************************************************************)
EXTENDS Integers, Sequences

CONSTANTS
  Paths,       \* the names blobs may have
  Rank,        \* the order in which the service lists them
  Commands,
  Kind,        \* what each command does: "rename", "copy" or "delete"
  Folder,      \* is_prefix: is it given a folder?
  Source,      \* the name of the blob or folder it is given
  Target,      \* and the name that gets, for a rename or a copy
  Together     \* the pairs of commands that may be under way together

Absent == <<>>

(* Does the name s start with the folder f? *)
StartsWith(s, f) == Len(f) <= Len(s) /\ \A i \in 1..Len(f) : s[i] = f[i]

(* The blobs a command is about *)
Named(c, p) ==
  IF Folder[c] THEN StartsWith(p, Source[c]) /\ p # Source[c] ELSE p = Source[c]

(* Where a blob goes: the name the command is given is replaced in its name *)
Dest(c, p) == Target[c] \o SubSeq(p, Len(Source[c]) + 1, Len(p))

ASSUME BlobMovesAssumption ==
  /\ Paths \subseteq Seq(STRING) \ {Absent}
  /\ Rank \in [Paths -> Nat \ {0}]
  /\ Kind \in [Commands -> {"rename", "copy", "delete"}]
  /\ Folder \in [Commands -> BOOLEAN]
  /\ Source \in [Commands -> Seq(STRING)]
  /\ Target \in [Commands -> Seq(STRING)]
  /\ \A c \in Commands :
       /\ ~Folder[c] => Source[c] \in Paths
       /\ Kind[c] # "delete" => \A p \in Paths : Named(c, p) => Dest(c, p) \in Paths
  /\ Together \subseteq SUBSET Commands

VARIABLES
  store,  \* the content of each blob of the container
  cmd,    \* the commands
  born,   \* history: the contents that have been stored
  given,  \* history: those a delete command removed, or a copy replaced
  unasked \* history: those of them that Policy::confirm was not asked about

vars == <<store, cmd, born, given, unasked>>

Command == [pc : {"idle", "listing", "copying", "deleting", "ok", "failed"},
            covered : Nat,         \* the listing has gone through the ranks up to this
            names : SUBSET Paths,  \* the blobs found
            left : SUBSET Paths,   \* those still to be copied, or to be deleted
            found : [Paths -> Paths \cup {Absent}]]  \* history: these blobs when it began

TypeOK ==
  /\ store \in [Paths -> Paths \cup {Absent}]
  /\ cmd \in [Commands -> Command]
  /\ born \subseteq Paths
  /\ given \subseteq Paths
  /\ unasked \subseteq given

Empty == [p \in Paths |-> Absent]

(* Some blobs are there, among them perhaps some where a rename will put others *)
Init ==
  /\ born \in SUBSET Paths
  /\ store = [p \in Paths |-> IF p \in born THEN p ELSE Absent]
  /\ cmd = [c \in Commands |-> [pc |-> "idle", covered |-> 0, names |-> {}, left |-> {},
                                found |-> Empty]]
  /\ given = {}
  /\ unasked = {}

Active(c) == cmd[c].pc \in {"listing", "copying", "deleting"}

Set(c, state) == cmd' = [cmd EXCEPT ![c] = state]

End(c, result) ==
  Set(c, [pc |-> result, covered |-> 0, names |-> {}, left |-> {}, found |-> Empty])

(* The blobs a command works on are known *)
Start(c, state, names) ==
  Set(c, [state EXCEPT !.pc = IF Kind[c] = "delete" THEN "deleting" ELSE "copying",
                       !.names = names, !.left = names])

(* "... are the same", "cannot rename a folder into itself" *)
Refused(c) ==
  /\ Kind[c] # "delete"
  /\ \/ Source[c] = Target[c]
     \/ Folder[c] /\ StartsWith(Target[c], Source[c])

(* The user gives a command *)
Begin(c) ==
  /\ ~Active(c)
  /\ \A d \in Commands : Active(d) => {c, d} \in Together
  /\ LET begun == [cmd[c] EXCEPT !.found =
                    [p \in Paths |-> IF Named(c, p) THEN store[p] ELSE Absent]]
     IN  IF Refused(c) THEN End(c, "failed")
         ELSE IF Folder[c] THEN Set(c, [begun EXCEPT !.pc = "listing"])
         ELSE Start(c, begun, {Source[c]})
  /\ UNCHANGED <<store, born, given, unasked>>

(* What a page of the listing that goes through the ranks up to n has *)
Page(c, n) == {p \in Paths : /\ Named(c, p)
                             /\ store[p] # Absent
                             /\ cmd[c].covered < Rank[p] /\ Rank[p] <= n}

(* Mutant: a page with a continuation ends the listing. *)
ListPageOnce(c) ==
  /\ cmd[c].pc = "listing"
  /\ \E q \in Paths :
       /\ cmd[c].covered < Rank[q]
       /\ LET names == cmd[c].names \cup Page(c, Rank[q])
          IN  IF names = {} THEN End(c, "failed") ELSE Start(c, cmd[c], names)
  /\ UNCHANGED <<store, born, given, unasked>>

(* list_blob_names_with_prefix: the next page, or the last one *)
ListPage(c) ==
  /\ cmd[c].pc = "listing"
  /\ \E q \in Paths :
       /\ cmd[c].covered < Rank[q]
       /\ LET names == cmd[c].names \cup Page(c, Rank[q])
              more == \E p \in Paths : Rank[q] < Rank[p]
          IN  IF more THEN Set(c, [cmd[c] EXCEPT !.covered = Rank[q], !.names = names])
              ELSE IF names = {} THEN End(c, "failed")
              ELSE Start(c, cmd[c], names)
  /\ UNCHANGED <<store, born, given, unasked>>

(* The blob the loop is at: names are taken in the order they were listed *)
Current(c, p) == p \in cmd[c].left /\ \A q \in cmd[c].left : Rank[p] <= Rank[q]

Give(contents, confirmed) ==
  /\ given' = given \cup contents
  /\ unasked' = IF confirmed THEN unasked ELSE unasked \cup contents

(* copy_blob: the service copies the blob, whatever the destination holds *)
CarryOutCopy(c, p) ==
  /\ store[p] # Absent
  /\ store' = [store EXCEPT ![Dest(c, p)] = store[p]]
  /\ Give({store[Dest(c, p)]} \ {Absent, store[p]}, FALSE)

(* delete_blob: the policy (AllowAllPolicy) is asked, the service deletes the blob *)
CarryOutDelete(c, p) ==
  /\ store[p] # Absent
  /\ store' = [store EXCEPT ![p] = Absent]
  /\ Give(IF Kind[c] = "delete" THEN {store[p]} ELSE {}, TRUE)

(* The blob is copied; a rename deletes when all are, a copy is done *)
Copy(c) ==
  /\ cmd[c].pc = "copying"
  /\ \E p \in cmd[c].left :
       /\ Current(c, p)
       /\ CarryOutCopy(c, p)
       /\ IF cmd[c].left # {p} THEN Set(c, [cmd[c] EXCEPT !.left = @ \ {p}])
          ELSE IF Kind[c] = "rename"
          THEN Set(c, [cmd[c] EXCEPT !.pc = "deleting", !.left = cmd[c].names])
          ELSE End(c, "ok")
  /\ UNCHANGED born

(* The blob is deleted, and with the last one the command is done *)
Delete(c) ==
  /\ cmd[c].pc = "deleting"
  /\ \E p \in cmd[c].left :
       /\ Current(c, p)
       /\ CarryOutDelete(c, p)
       /\ IF cmd[c].left # {p} THEN Set(c, [cmd[c] EXCEPT !.left = @ \ {p}])
          ELSE End(c, "ok")
  /\ UNCHANGED born

(* The request is carried out, but its answer is lost: it is sent again *)
LoseAnswer(c) ==
  /\ \E p \in cmd[c].left :
       /\ Current(c, p)
       /\ \/ cmd[c].pc = "copying" /\ CarryOutCopy(c, p)
          \/ cmd[c].pc = "deleting" /\ CarryOutDelete(c, p)
  /\ UNCHANGED <<cmd, born>>

(* Mutant: a copy that fails is skipped. *)
FailSkipping(c) ==
  /\ cmd[c].pc = "copying"
  /\ IF Kind[c] = "rename"
     THEN Set(c, [cmd[c] EXCEPT !.pc = "deleting", !.left = cmd[c].names])
     ELSE End(c, "ok")
  /\ UNCHANGED <<store, born, given, unasked>>

(* A request fails (the blob is missing, the pipeline gives up), or the *)
(* process dies: the command ends where it is                           *)
Fail(c) ==
  /\ Active(c)
  /\ End(c, "failed")
  /\ UNCHANGED <<store, born, given, unasked>>

(* Another client stores a blob under a name that is free, and that no running *)
(* command has listed                                                          *)
Create(p) ==
  /\ p \notin born
  /\ store[p] = Absent
  /\ \A c \in Commands : p \notin cmd[c].names
  /\ store' = [store EXCEPT ![p] = p]
  /\ born' = born \cup {p}
  /\ UNCHANGED <<cmd, given, unasked>>

Step(c) ==
  \/ Begin(c) \/ ListPage(c) \/ Copy(c) \/ Delete(c) \/ LoseAnswer(c) \/ Fail(c)

Next == (\E c \in Commands : Step(c)) \/ (\E p \in Paths : Create(p))

Spec == Init /\ [][Next]_vars
-----------------------------------------------------------------------------
(* Properties.                                                             *)

(* Whatever step fails, whichever answer is lost and however often commands *)
(* are given again, every content is still stored under some name, unless a *)
(* delete command removed it or a copy put another in its place: a rename   *)
(* deletes nothing that was not copied.                                     *)
NothingLost == \A v \in born \ given : \E p \in Paths : store[p] = v

Beside(c) == {d \in Commands : {c, d} \in Together}

(* A command that reports success, and that no other ran beside, has dealt   *)
(* with every blob that was there when it was given, also with those on      *)
(* later pages of the listing and those an earlier attempt left behind.      *)
DoneMeansAll ==
  [][\A c \in Commands :
       Active(c) /\ cmd'[c].pc = "ok" /\ (\A d \in Beside(c) : cmd[d].pc = "idle") =>
         \A p \in Paths :
           cmd[c].found[p] # Absent =>
             /\ Kind[c] # "copy" => store'[p] = Absent
             /\ Kind[c] # "delete" => store'[Dest(c, p)] = cmd[c].found[p]]_vars

(* "arkived-core guarantees this is invoked before every delete, overwrite..." *)
(* (policy/mod.rs): what a command removes or replaces, Policy::confirm was    *)
(* asked about.                                                                *)
LossesConfirmed == unasked = {}
=============================================================================
