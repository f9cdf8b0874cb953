-------------------------- MODULE ActionExecution ---------------------------
(***************************************************************************)
(* What happens once a rule fires: executeAction starts a goroutine that   *)
(* writes the action's file through a temporary one                        *)
(* (internal/action/file_executor.go), records the execution and tells the *)
(* streaming clients.  Goroutines run at the same time, and the process may*)
(* end under them: main waits for none.                                    *)
(*                                                                         *)
(* The name of the file is made of the rule and the emittedAt it fired at, *)
(* so that two actions may share one.  A file is an inode that names lead  *)
(* to: one that is open goes on being written when it is renamed.          *)
(***************************************************************************)
EXTENDS Integers

CONSTANTS
  Actions,   (* firings of rules, each with a goroutine of its own *)
  Names,
  Name,      (* Name[a]: the file of action a, by rule and emittedAt *)
  Size,      (* Size[a]: the length of its record *)
  Failures,  (* bound: how many calls of the system or the database fail *)
  Crashes,   (* bound: how often the process ends *)
  None

ASSUME NameAssumption == Name \in [Actions -> Names]
ASSUME SizeAssumption == Size \in [Actions -> Nat]
ASSUME BoundsAssumption == Failures \in Nat /\ Crashes \in Nat
ASSUME NoneAssumption == None \notin Actions

VARIABLES
  pc,        (* per action: where its goroutine is *)
  failed,    (* the actions whose Execute returned an error *)
  fd,        (* per action: the inode it has open, named after its creator *)
  content,   (* per inode: the action whose record it holds, "empty" or "torn" *)
  temp,      (* per name: the inode of the temporary file, or None *)
  file,      (* per name: the inode of the action file, or None *)
  rows,      (* rule_executions: records [action, status] *)
  crossed,   (* history: the names on which two goroutines have met *)
  failures, crashes

vars == <<pc, failed, fd, content, temp, file, rows, crossed, failures, crashes>>

Steps == {"idle", "open", "write", "rename", "remove", "record", "broadcast", "done", "lost"}

TypeOK ==
  /\ pc \in [Actions -> Steps]
  /\ failed \subseteq Actions
  /\ fd \in [Actions -> Actions \union {None}]
  /\ content \in [Actions -> Actions \union {"empty", "torn"}]
  /\ temp \in [Names -> Actions \union {None}]
  /\ file \in [Names -> Actions \union {None}]
  /\ rows \subseteq [action : Actions, status : {"success", "failed"}]
  /\ crossed \subseteq Names
  /\ failures \in 0..Failures
  /\ crashes \in 0..Crashes

GoTo(a, step) == pc' = [pc EXCEPT ![a] = step]

Fails ==
  /\ failures < Failures
  /\ failures' = failures + 1
  /\ UNCHANGED crashes

Succeeds == UNCHANGED <<failures, crashes>>

-----------------------------------------------------------------------------

Init ==
  /\ pc = [a \in Actions |-> "idle"]
  /\ failed = {}
  /\ fd = [a \in Actions |-> None]
  /\ content = [a \in Actions |-> "empty"]
  /\ temp = [n \in Names |-> None]
  /\ file = [n \in Names |-> None]
  /\ rows = {}
  /\ crossed = {}
  /\ failures = 0
  /\ crashes = 0

(* The goroutines that have the temporary file of a name open, or are about*)
(* to rename it.                                                           *)
Writing(n) == {a \in Actions : Name[a] = n /\ pc[a] \in {"write", "rename"}}

(* executeAction: the rule fired.                                          *)
Fire(a) ==
  /\ pc[a] = "idle"
  /\ GoTo(a, "open")
  /\ UNCHANGED <<failed, fd, content, temp, file, rows, crossed>>
  /\ Succeeds

(* os.WriteFile opens the temporary file, emptying one that is there.      *)
Open(a) ==
  /\ pc[a] = "open"
  /\ LET inode == IF temp[Name[a]] = None THEN a ELSE temp[Name[a]]
     IN  /\ temp' = [temp EXCEPT ![Name[a]] = inode]
         /\ fd' = [fd EXCEPT ![a] = inode]
         /\ content' = [content EXCEPT ![inode] = "empty"]
  /\ crossed' = IF Writing(Name[a]) = {} THEN crossed ELSE crossed \union {Name[a]}
  /\ GoTo(a, "write")
  /\ UNCHANGED <<failed, file, rows>>
  /\ Succeeds

(* Then it writes from the start; a longer record another goroutine wrote  *)
(* in the meantime keeps its end.                                          *)
Overwritten(a, old) ==
  IF old = "empty" THEN a
  ELSE IF old # "torn" /\ Size[old] <= Size[a] THEN a
  ELSE "torn"

Write(a) ==
  /\ pc[a] = "write"
  /\ content' = [content EXCEPT ![fd[a]] = Overwritten(a, content[fd[a]])]
  /\ GoTo(a, "rename")
  /\ UNCHANGED <<failed, fd, temp, file, rows, crossed>>
  /\ Succeeds

(* Mutant: the error of a write is not looked at.                          *)
WriteFailsUnnoticed(a) ==
  /\ pc[a] = "write"
  /\ content' = [content EXCEPT ![fd[a]] = "torn"]
  /\ GoTo(a, "rename")
  /\ UNCHANGED <<failed, fd, temp, file, rows, crossed>>
  /\ Fails

(* A write that fails leaves part of the record, and the temporary file.   *)
WriteFails(a) ==
  /\ pc[a] \in {"open", "write"}
  /\ content' = IF pc[a] = "open" THEN content ELSE [content EXCEPT ![fd[a]] = "torn"]
  /\ failed' = failed \union {a}
  /\ GoTo(a, "record")
  /\ UNCHANGED <<fd, temp, file, rows, crossed>>
  /\ Fails

(* os.Rename, which needs a temporary file to be there.                    *)
Rename(a) ==
  /\ pc[a] = "rename" /\ temp[Name[a]] # None
  /\ file' = [file EXCEPT ![Name[a]] = temp[Name[a]]]
  /\ temp' = [temp EXCEPT ![Name[a]] = None]
  /\ GoTo(a, "record")
  /\ UNCHANGED <<failed, fd, content, rows, crossed>>
  /\ Succeeds

RenameFails(a) ==
  /\ pc[a] = "rename"
  /\ IF temp[Name[a]] = None THEN Succeeds ELSE Fails
  /\ GoTo(a, "remove")
  /\ UNCHANGED <<failed, fd, content, temp, file, rows, crossed>>

(* Mutant: Execute returns no error when the rename failed.                *)
RemoveSilently(a) ==
  /\ pc[a] = "remove"
  /\ \/ temp' = [temp EXCEPT ![Name[a]] = None] /\ Succeeds
     \/ UNCHANGED temp /\ Fails
  /\ GoTo(a, "record")
  /\ UNCHANGED <<failed, fd, content, file, rows, crossed>>

(* os.Remove, whose own error is ignored.                                  *)
Remove(a) ==
  /\ pc[a] = "remove"
  /\ \/ temp' = [temp EXCEPT ![Name[a]] = None] /\ Succeeds
     \/ UNCHANGED temp /\ Fails
  /\ failed' = failed \union {a}
  /\ GoTo(a, "record")
  /\ UNCHANGED <<fd, content, file, rows, crossed>>

(* ExecutionStore.Record; an error is logged and nothing else.             *)
Status(a) == IF a \in failed THEN "failed" ELSE "success"

Record(a) ==
  /\ pc[a] = "record"
  /\ rows' = rows \union {[action |-> a, status |-> Status(a)]}
  /\ GoTo(a, "broadcast")
  /\ UNCHANGED <<failed, fd, content, temp, file, crossed>>
  /\ Succeeds

RecordFails(a) ==
  /\ pc[a] = "record"
  /\ GoTo(a, "broadcast")
  /\ UNCHANGED <<failed, fd, content, temp, file, rows, crossed>>
  /\ Fails

Broadcast(a) ==
  /\ pc[a] = "broadcast"
  /\ GoTo(a, "done")
  /\ UNCHANGED <<failed, fd, content, temp, file, rows, crossed>>
  /\ Succeeds

(* The process ends, at a crash or at the end of main, with its goroutines.*)
Stop ==
  /\ crashes < Crashes
  /\ crashes' = crashes + 1
  /\ pc' = [a \in Actions |-> IF pc[a] \in {"idle", "done"} THEN pc[a] ELSE "lost"]
  /\ UNCHANGED <<failed, fd, content, temp, file, rows, crossed, failures>>

Step(a) ==
  \/ Open(a) \/ Write(a) \/ WriteFails(a)
  \/ Rename(a) \/ RenameFails(a) \/ Remove(a)
  \/ Record(a) \/ RecordFails(a) \/ Broadcast(a)

Next == (\E a \in Actions : Fire(a) \/ Step(a)) \/ Stop

Spec == Init /\ [][Next]_vars

-----------------------------------------------------------------------------

(* Whoever reads the directory finds whole records, at any moment: the     *)
(* record is written aside and moved in place when it is complete, so that *)
(* neither a failed write nor the end of the process tears one.  A name on *)
(* which two goroutines have met is excepted, for they share the temporary *)
(* file; actions of one name that do not meet are not.                     *)
FilesAreWhole ==
  \A n \in Names \ crossed : file[n] # None =>
    content[file[n]] \in {a \in Actions : Name[a] = n}

(* The rows tell what the directory holds ("a satisfied rule produces the  *)
(* expected MVP action file"), with the same exception: where an execution *)
(* is recorded as a success there is its record, or that of another success*)
(* which has the same name; and the record of one that is recorded as      *)
(* failed is nowhere.                                                      *)
RowsTellTheTruth ==
  \A row \in rows : Name[row.action] \notin crossed =>
    LET inode == file[Name[row.action]]
    IN  /\ row.status = "success" => inode # None /\ content[inode] \in Actions \ failed
        /\ row.status = "failed" => inode = None \/ content[inode] # row.action

=============================================================================
