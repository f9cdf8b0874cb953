----------------------------- MODULE OutsideProofs -----------------------------
(***************************************************************************)
(* Proofs about what is around the engine, for any values of the constants.*)
(*                                                                         *)
(* ActionExecution, with any number of actions, failing calls and crashes, *)
(* whoever shares a name with whom: types; and, under a name on which no   *)
(* two goroutines have met, that files are whole and rows true.  The       *)
(* invariant follows a record on its way: aside while its goroutine writes *)
(* (Aside), in an inode that is new or was left behind and that is not the *)
(* one in place; and in place after the rename (InPlace).                  *)
(*                                                                         *)
(* Dashboard: what the page lists.  The invariant follows an execution from*)
(* its row through the stream and the snapshot to the list: what was       *)
(* recorded and told is accounted for in one of them (Complete), and the   *)
(* stream has still to bring what the list has only from the snapshot      *)
(* (Counted).                                                              *)
(*                                                                         *)
(* Simulator: what it says is so, whoever meets whom in its maps.  A       *)
(* scenario has in hand what its next event will be about (Playing), a     *)
(* camera is empty when it is put in (Fresh) and has nothing of those who  *)
(* work in another (Unused), and what was sent tells of the world but for  *)
(* what is in hand (Told).                                                 *)
(***************************************************************************)
EXTENDS MCOutside, FiniteSetTheorems, SequenceTheorems, TLAPS

(* Actions.                                                                *)

Early == {"idle", "open", "write", "rename", "remove"}

(* Inodes carry the name of their creator, and of who has them open.       *)
NamedFor(n) ==
  /\ temp[n] # None => Name[temp[n]] = n
  /\ file[n] # None => Name[file[n]] = n

OpenFor(a) ==
  /\ fd[a] # None => Name[fd[a]] = Name[a]
  /\ pc[a] \in {"write", "rename"} => fd[a] # None
  /\ pc[a] \in Early => a \notin failed

(* While nobody meets on a name, at most one goroutine writes, and aside ...*)
Aside(n) ==
  /\ \A a, b \in Writing(n) : a = b
  /\ \A a \in Writing(n) :
       /\ temp[n] \in {None, fd[a]}
       /\ file[n] # fd[a]
       /\ pc[fd[a]] \notin {"idle", "open"}
       /\ pc[a] = "write" => content[fd[a]] = "empty"
       /\ pc[a] = "rename" => content[fd[a]] = a
  /\ temp[n] # None => temp[n] # file[n] /\ pc[temp[n]] \notin {"idle", "open"}

(* ... and in place is the whole record of an action that has succeeded,   *)
(* and some record if any action has.                                      *)
InPlace(n) ==
  /\ file[n] # None =>
       /\ pc[file[n]] \notin {"idle", "open"}
       /\ content[file[n]] \in Actions \ failed
       /\ Name[content[file[n]]] = n
       /\ pc[content[file[n]]] \notin Early
  /\ \A a \in Actions :
       Name[a] = n /\ pc[a] \in {"record", "broadcast", "done"} /\ a \notin failed
         => file[n] # None
  /\ \A row \in rows : Name[row.action] = n /\ row.status = "success" => file[n] # None

(* A row tells whether its action failed, which is settled by then.        *)
RowTrue(row) ==
  /\ row.status = "failed" <=> row.action \in failed
  /\ pc[row.action] \notin Early

WholeInv ==
  /\ TypeOK
  /\ \A n \in Names : NamedFor(n)
  /\ \A a \in Actions : OpenFor(a)
  /\ \A n \in Names \ crossed : Aside(n) /\ InPlace(n)
  /\ \A row \in rows : RowTrue(row)

-----------------------------------------------------------------------------

LEMMA StatusType ==
  ASSUME NEW a \in Actions
  PROVE  [action |-> a, status |-> Status(a)] \in
           [action : Actions, status : {"success", "failed"}]
  BY DEF Status

LEMMA CountersStep ==
  ASSUME TypeOK, Fails \/ Succeeds
  PROVE  failures' \in 0..Failures /\ crashes' \in 0..Crashes
  BY BoundsAssumption DEF TypeOK, Fails, Succeeds

(* The state is well-typed, whoever shares a name with whom.               *)
THEOREM TypeCorrect == Spec => []TypeOK
<1>1. Init => TypeOK
  BY BoundsAssumption DEF Init, TypeOK, Steps
<1>2. TypeOK /\ [Next]_vars => TypeOK'
  <2> SUFFICES ASSUME TypeOK, [Next]_vars
               PROVE  TypeOK'
    OBVIOUS
  <2> USE DEF TypeOK, Steps, GoTo
  <2> USE NameAssumption
  <2>1. ASSUME NEW a \in Actions, Fire(a)
        PROVE  TypeOK'
    BY <2>1, CountersStep DEF Fire
  <2>2. ASSUME NEW a \in Actions, Open(a)
        PROVE  TypeOK'
    <3> DEFINE inode == IF temp[Name[a]] = None THEN a ELSE temp[Name[a]]
    <3>1. inode \in Actions
      OBVIOUS
    <3> HIDE DEF inode
    <3>2. /\ temp' = [temp EXCEPT ![Name[a]] = inode]
          /\ fd' = [fd EXCEPT ![a] = inode]
          /\ content' = [content EXCEPT ![inode] = "empty"]
          /\ pc' = [pc EXCEPT ![a] = "write"]
          /\ crossed' \subseteq Names
          /\ UNCHANGED <<failed, file, rows>>
      BY <2>2 DEF Open, inode
    <3>3. QED
      BY <2>2, <3>1, <3>2, CountersStep DEF Open
  <2>3. ASSUME NEW a \in Actions, Write(a)
        PROVE  TypeOK'
    BY <2>3, CountersStep DEF Write, Overwritten
  <2>4. ASSUME NEW a \in Actions, WriteFails(a)
        PROVE  TypeOK'
    BY <2>4, CountersStep DEF WriteFails
  <2>5. ASSUME NEW a \in Actions, Rename(a)
        PROVE  TypeOK'
    BY <2>5, CountersStep DEF Rename
  <2>6. ASSUME NEW a \in Actions, RenameFails(a)
        PROVE  TypeOK'
    BY <2>6, CountersStep DEF RenameFails
  <2>7. ASSUME NEW a \in Actions, Remove(a)
        PROVE  TypeOK'
    BY <2>7, CountersStep DEF Remove
  <2>8. ASSUME NEW a \in Actions, Record(a)
        PROVE  TypeOK'
    BY <2>8, CountersStep, StatusType DEF Record
  <2>9. ASSUME NEW a \in Actions, RecordFails(a) \/ Broadcast(a)
        PROVE  TypeOK'
    BY <2>9, CountersStep DEF RecordFails, Broadcast
  <2>10. CASE Stop
    BY <2>10, BoundsAssumption DEF Stop
  <2>11. CASE UNCHANGED vars
    BY <2>11 DEF vars
  <2>12. QED
    BY <2>1, <2>2, <2>3, <2>4, <2>5, <2>6, <2>7, <2>8, <2>9, <2>10, <2>11
       DEF Next, Step
<1>3. QED
  BY <1>1, <1>2, PTL DEF Spec

-----------------------------------------------------------------------------

(* A step of one goroutine moves only its own action, and touches no name  *)
(* but its own and no inode of another name.                               *)
Apart(a) ==
  /\ \A b \in Actions \ {a} :
       pc'[b] = pc[b] /\ fd'[b] = fd[b] /\ (b \in failed' <=> b \in failed)
  /\ \A i \in Actions : Name[i] # Name[a] => content'[i] = content[i]
  /\ \A n \in Names \ {Name[a]} :
       temp'[n] = temp[n] /\ file'[n] = file[n] /\ (n \in crossed' <=> n \in crossed)

(* Then the invariant is a matter of that action and that name alone.      *)
LEMMA Local ==
  ASSUME WholeInv, TypeOK', NEW a \in Actions, Apart(a),
         rows' \in {rows, rows \union {[action |-> a, status |-> Status(a)]}},
         NamedFor(Name[a])', OpenFor(a)',
         Name[a] \notin crossed' => Aside(Name[a])' /\ InPlace(Name[a])',
         \A row \in rows' : row.action = a => RowTrue(row)'
  PROVE  WholeInv'
<1> USE NameAssumption, NoneAssumption DEF WholeInv
<1>1. ASSUME NEW n \in Names
      PROVE  NamedFor(n)'
  BY DEF NamedFor, Apart
<1>2. ASSUME NEW b \in Actions
      PROVE  OpenFor(b)'
  BY DEF OpenFor, Apart
<1>3. ASSUME NEW n \in Names \ crossed'
      PROVE  Aside(n)' /\ InPlace(n)'
  <2> SUFFICES ASSUME n # Name[a]
               PROVE  Aside(n)' /\ InPlace(n)'
    OBVIOUS
  <2>1. /\ Aside(n) /\ InPlace(n) /\ NamedFor(n)
        /\ temp'[n] = temp[n] /\ file'[n] = file[n]
    BY DEF Apart
  <2>2. \A b \in Actions : Name[b] = n =>
          /\ pc'[b] = pc[b] /\ fd'[b] = fd[b] /\ (b \in failed' <=> b \in failed)
          /\ content'[b] = content[b]
    BY DEF Apart
  <2>3. Writing(n)' = Writing(n)
    BY <2>2 DEF Writing
  <2>4. \A b \in Writing(n) : b \in Actions /\ fd[b] \in Actions /\ Name[b] = n /\ Name[fd[b]] = n
    BY DEF Writing, OpenFor, TypeOK
  <2>5. Aside(n)'
    <3>1. ASSUME NEW b \in Writing(n)
          PROVE  /\ temp[n] \in {None, fd'[b]}
                 /\ file[n] # fd'[b]
                 /\ pc'[fd'[b]] \notin {"idle", "open"}
                 /\ pc'[b] = "write" => content'[fd'[b]] = "empty"
                 /\ pc'[b] = "rename" => content'[fd'[b]] = b
      BY <2>1, <2>2, <2>4 DEF Aside
    <3>2. temp[n] # None => temp[n] # file[n] /\ pc'[temp[n]] \notin {"idle", "open"}
      BY <2>1, <2>2 DEF Aside, NamedFor, TypeOK
    <3> QED
      BY <2>1, <2>3, <3>1, <3>2 DEF Aside
  <2>6. InPlace(n)'
    <3>1. file[n] # None =>
            /\ pc'[file[n]] \notin {"idle", "open"}
            /\ content'[file[n]] \in Actions \ failed'
            /\ Name[content'[file[n]]] = n
            /\ pc'[content'[file[n]]] \notin Early
      BY <2>1, <2>2 DEF InPlace, NamedFor, TypeOK
    <3>2. \A b \in Actions :
            Name[b] = n /\ pc'[b] \in {"record", "broadcast", "done"} /\ b \notin failed'
              => file[n] # None
      BY <2>1, <2>2 DEF InPlace
    <3>3. \A row \in rows' : Name[row.action] = n /\ row.status = "success" => file[n] # None
      BY <2>1 DEF InPlace
    <3> QED
      BY <2>1, <3>1, <3>2, <3>3 DEF InPlace
  <2> QED
    BY <2>5, <2>6
<1>4. ASSUME NEW row \in rows', row.action # a
      PROVE  RowTrue(row)'
  <2>1. row \in rows /\ RowTrue(row) /\ row.action \in Actions
    BY <1>4 DEF TypeOK
  <2> QED
    BY <1>4, <2>1 DEF RowTrue, Apart
<1> QED
  BY <1>1, <1>2, <1>3, <1>4

(* An action on its way has no row yet.                                    *)
LEMMA NoRowYet ==
  ASSUME WholeInv, NEW a \in Actions, pc[a] \in Early
  PROVE  \A row \in rows : row.action # a
  BY DEF WholeInv, RowTrue

-----------------------------------------------------------------------------

(* One lemma for every step of a goroutine that moves a file or a row.     *)

LEMMA OpenKeeps ==
  ASSUME WholeInv, TypeOK', NEW a \in Actions, Open(a)
  PROVE  WholeInv'
<1> USE NameAssumption, NoneAssumption
<1> DEFINE n == Name[a]
           inode == IF temp[n] = None THEN a ELSE temp[n]
<1>1. n \in Names /\ TypeOK /\ NamedFor(n) /\ OpenFor(a)
  BY DEF WholeInv
<1>2. /\ temp' = [temp EXCEPT ![n] = inode] /\ fd' = [fd EXCEPT ![a] = inode]
      /\ content' = [content EXCEPT ![inode] = "empty"]
      /\ pc[a] = "open" /\ pc' = [pc EXCEPT ![a] = "write"]
      /\ crossed' = IF Writing(n) = {} THEN crossed ELSE crossed \union {n}
      /\ UNCHANGED <<failed, file, rows>>
  BY DEF Open, GoTo
<1>3. inode \in Actions /\ inode # None /\ Name[inode] = n
  BY <1>1 DEF NamedFor, TypeOK
<1>4. Apart(a)
  BY <1>1, <1>2, <1>3 DEF Apart, TypeOK
<1>5. NamedFor(n)' /\ OpenFor(a)'
  BY <1>1, <1>2, <1>3 DEF NamedFor, OpenFor, TypeOK, Early
<1>6. ASSUME n \notin crossed'
      PROVE  Aside(n)' /\ InPlace(n)'
  <2>1. Writing(n) = {} /\ Aside(n) /\ InPlace(n)
    BY <1>1, <1>2, <1>6 DEF WholeInv
  <2>2. Writing(n)' = {a}
    BY <1>2, <2>1 DEF Writing, TypeOK, WholeInv
  <2>3. /\ temp'[n] = inode /\ file'[n] = file[n] /\ fd'[a] = inode
        /\ pc'[a] = "write" /\ content'[inode] = "empty"
    BY <1>1, <1>2, <1>3 DEF TypeOK
  <2>4. \A b \in Actions : pc'[b] \in {"idle", "open"} => pc[b] \in {"idle", "open"} /\ b # a
    BY <1>1, <1>2 DEF TypeOK
  <2>5. file[n] # inode
    BY <1>1, <1>2, <1>3, <2>1 DEF Aside, InPlace
  <2>6. pc'[inode] \notin {"idle", "open"}
    BY <1>1, <1>3, <2>1, <2>4 DEF Aside
  <2>7. Aside(n)'
    BY <2>2, <2>3, <2>5, <2>6 DEF Aside
  <2>8. file[n] # None =>
          /\ file[n] \in Actions /\ content'[file[n]] = content[file[n]]
          /\ pc'[file[n]] \notin {"idle", "open"}
          /\ pc'[content[file[n]]] = pc[content[file[n]]]
    <3> SUFFICES ASSUME file[n] # None
                 PROVE  /\ file[n] \in Actions /\ content'[file[n]] = content[file[n]]
                        /\ pc'[file[n]] \notin {"idle", "open"}
                        /\ pc'[content[file[n]]] = pc[content[file[n]]]
      OBVIOUS
    <3>1. file[n] \in Actions /\ content[file[n]] \in Actions /\ content[file[n]] # a
      BY <1>1, <1>2, <2>1 DEF InPlace, TypeOK, Early
    <3> QED
      BY <1>1, <1>2, <2>1, <2>4, <2>5, <3>1 DEF InPlace, TypeOK
  <2>9. \A b \in Actions : pc'[b] \in {"record", "broadcast", "done"} => pc'[b] = pc[b]
    BY <1>1, <1>2 DEF TypeOK
  <2>10. InPlace(n)'
    BY <1>1, <1>2, <2>1, <2>8, <2>9 DEF InPlace
  <2> QED
    BY <2>7, <2>10
<1>7. \A row \in rows' : row.action # a
  BY <1>2, NoRowYet DEF Early
<1> QED
  BY <1>2, <1>4, <1>5, <1>6, <1>7, Local

(* The other steps open nothing, so that of a name nobody writes more than *)
(* before; what a goroutine leaves in its inode is not in place.           *)
LEMMA WriteKeeps ==
  ASSUME WholeInv, TypeOK', NEW a \in Actions, Write(a)
  PROVE  WholeInv'
<1> USE NameAssumption, NoneAssumption
<1> DEFINE n == Name[a]
           new == Overwritten(a, content[fd[a]])
<1>1. n \in Names /\ TypeOK /\ NamedFor(n) /\ OpenFor(a)
  BY DEF WholeInv
<1>2. /\ content' = [content EXCEPT ![fd[a]] = new]
      /\ pc[a] = "write" /\ pc' = [pc EXCEPT ![a] = "rename"]
      /\ UNCHANGED <<failed, fd, temp, file, rows, crossed>>
  BY DEF Write, GoTo
<1>3. fd[a] \in Actions /\ Name[fd[a]] = n
  BY <1>1, <1>2 DEF OpenFor, TypeOK
<1> HIDE DEF new
<1>4. Apart(a)
  BY <1>1, <1>2, <1>3 DEF Apart, TypeOK
<1>5. NamedFor(n)' /\ OpenFor(a)'
  BY <1>1, <1>2, <1>3 DEF NamedFor, OpenFor, TypeOK, Early
<1>6. ASSUME n \notin crossed'
      PROVE  Aside(n)' /\ InPlace(n)'
  <2>1. Aside(n) /\ InPlace(n) /\ a \in Writing(n)
    BY <1>1, <1>2, <1>6 DEF WholeInv, Writing
  <2>2. Writing(n)' = Writing(n)
    BY <1>1, <1>2 DEF Writing, TypeOK
  <2>3. \A b \in Writing(n) : b = a
    BY <2>1 DEF Aside
  <2>4. content'[fd[a]] = a /\ file[n] # fd[a]
    BY <1>1, <1>2, <1>3, <2>1 DEF Aside, new, Overwritten, TypeOK
  <2>5. \A b \in Actions : pc'[b] \in {"idle", "open"} => pc[b] \in {"idle", "open"} /\ b # a
    BY <1>1, <1>2 DEF TypeOK
  <2>6. pc'[a] = "rename" /\ pc'[fd[a]] \notin {"idle", "open"}
    BY <1>1, <1>2, <1>3, <2>1, <2>5 DEF Aside, TypeOK
  <2>7. temp[n] # None => temp[n] # file[n] /\ pc'[temp[n]] \notin {"idle", "open"}
    BY <1>1, <2>1, <2>5 DEF Aside, TypeOK
  <2>8. Aside(n)'
    BY <1>2, <2>1, <2>2, <2>3, <2>4, <2>6, <2>7 DEF Aside
  <2>9. file[n] # None =>
          /\ content'[file[n]] = content[file[n]]
          /\ pc'[file[n]] \notin {"idle", "open"}
          /\ pc'[content[file[n]]] = pc[content[file[n]]]
    BY <1>1, <1>2, <2>1, <2>4, <2>5 DEF InPlace, TypeOK, Early
  <2>10. \A b \in Actions : pc'[b] \in {"record", "broadcast", "done"} => pc'[b] = pc[b]
    BY <1>1, <1>2 DEF TypeOK
  <2>11. InPlace(n)'
    BY <1>1, <1>2, <2>1, <2>9, <2>10 DEF InPlace
  <2> QED
    BY <2>8, <2>11
<1>7. \A row \in rows' : row.action # a
  BY <1>2, NoRowYet DEF Early
<1> QED
  BY <1>2, <1>4, <1>5, <1>6, <1>7, Local

(* A torn record is in no file: what the write left is aside.              *)
LEMMA WriteFailsKeeps ==
  ASSUME WholeInv, TypeOK', NEW a \in Actions, WriteFails(a)
  PROVE  WholeInv'
<1> USE NameAssumption, NoneAssumption
<1> DEFINE n == Name[a]
<1>1. n \in Names /\ TypeOK /\ NamedFor(n) /\ OpenFor(a)
  BY DEF WholeInv
<1>2. /\ content' = IF pc[a] = "open" THEN content ELSE [content EXCEPT ![fd[a]] = "torn"]
      /\ failed' = failed \union {a}
      /\ pc[a] \in {"open", "write"} /\ pc' = [pc EXCEPT ![a] = "record"]
      /\ UNCHANGED <<fd, temp, file, rows, crossed>>
  BY DEF WriteFails, GoTo
<1>3. pc[a] # "open" => pc[a] = "write" /\ fd[a] \in Actions /\ Name[fd[a]] = n
  BY <1>1, <1>2 DEF OpenFor, TypeOK
<1>4. Apart(a)
  BY <1>1, <1>2, <1>3 DEF Apart, TypeOK
<1>5. NamedFor(n)' /\ OpenFor(a)'
  BY <1>1, <1>2, <1>3 DEF NamedFor, OpenFor, TypeOK, Early
<1>6. ASSUME n \notin crossed'
      PROVE  Aside(n)' /\ InPlace(n)'
  <2>1. Aside(n) /\ InPlace(n) /\ (pc[a] = "write" => a \in Writing(n))
    BY <1>1, <1>2, <1>6 DEF WholeInv, Writing
  <2>2. Writing(n)' = Writing(n) \ {a}
    BY <1>1, <1>2 DEF Writing, TypeOK
  <2>3. Writing(n)' # {} => pc[a] = "open"
    BY <1>2, <2>1, <2>2 DEF Aside
  <2>4. \A b \in Actions : pc'[b] \in {"idle", "open"} => pc[b] \in {"idle", "open"} /\ b # a
    BY <1>1, <1>2 DEF TypeOK
  <2>5. temp[n] # None => temp[n] # file[n] /\ pc'[temp[n]] \notin {"idle", "open"}
    BY <1>1, <2>1, <2>4 DEF Aside, TypeOK
  <2>6. ASSUME NEW b \in Writing(n)'
        PROVE  /\ temp[n] \in {None, fd[b]}
               /\ file[n] # fd[b]
               /\ pc'[fd[b]] \notin {"idle", "open"}
               /\ pc'[b] = "write" => content'[fd[b]] = "empty"
               /\ pc'[b] = "rename" => content'[fd[b]] = b
    <3>1. b \in Writing(n) /\ b # a /\ pc[a] = "open" /\ content' = content /\ b \in Actions
      BY <1>2, <2>2, <2>3 DEF Writing
    <3>2. pc'[b] = pc[b] /\ fd[b] \in Actions
      BY <1>1, <1>2, <3>1 DEF TypeOK, Writing, WholeInv, OpenFor
    <3> QED
      BY <2>1, <2>4, <3>1, <3>2 DEF Aside
  <2>7. Aside(n)'
    BY <1>2, <2>1, <2>2, <2>5, <2>6 DEF Aside
  <2>8. file[n] # None =>
          /\ content'[file[n]] = content[file[n]] /\ content[file[n]] # a
          /\ pc'[file[n]] \notin {"idle", "open"}
          /\ pc'[content[file[n]]] = pc[content[file[n]]]
    <3> SUFFICES ASSUME file[n] # None
                 PROVE  /\ content'[file[n]] = content[file[n]] /\ content[file[n]] # a
                        /\ pc'[file[n]] \notin {"idle", "open"}
                        /\ pc'[content[file[n]]] = pc[content[file[n]]]
      OBVIOUS
    <3>1. content[file[n]] # a /\ content[file[n]] \in Actions /\ file[n] \in Actions
      BY <1>1, <1>2, <2>1 DEF InPlace, Early, TypeOK
    <3>2. content'[file[n]] = content[file[n]]
      BY <1>1, <1>2, <1>3, <2>1, <3>1 DEF Aside, TypeOK
    <3> QED
      BY <1>1, <1>2, <2>1, <2>4, <3>1, <3>2 DEF InPlace, TypeOK
  <2>9. \A b \in Actions : b # a => pc'[b] = pc[b] /\ (b \in failed' <=> b \in failed)
    BY <1>1, <1>2 DEF TypeOK
  <2>10. a \in failed'
    BY <1>2
  <2>11. InPlace(n)'
    BY <1>1, <1>2, <2>1, <2>8, <2>9, <2>10 DEF InPlace
  <2> QED
    BY <2>7, <2>11
<1>7. \A row \in rows' : row.action # a
  BY <1>2, NoRowYet DEF Early
<1> QED
  BY <1>2, <1>4, <1>5, <1>6, <1>7, Local

LEMMA RenameKeeps ==
  ASSUME WholeInv, TypeOK', NEW a \in Actions, Rename(a)
  PROVE  WholeInv'
<1> USE NameAssumption, NoneAssumption
<1> DEFINE n == Name[a]
<1>1. n \in Names /\ TypeOK /\ NamedFor(n) /\ OpenFor(a)
  BY DEF WholeInv
<1>2. /\ temp' = [temp EXCEPT ![n] = None] /\ file' = [file EXCEPT ![n] = temp[n]]
      /\ pc[a] = "rename" /\ temp[n] # None /\ pc' = [pc EXCEPT ![a] = "record"]
      /\ UNCHANGED <<failed, fd, content, rows, crossed>>
  BY DEF Rename, GoTo
<1>3. temp'[n] = None /\ file'[n] = temp[n]
  BY <1>1, <1>2 DEF TypeOK
<1>4. Apart(a)
  BY <1>1, <1>2 DEF Apart, TypeOK
<1>5. NamedFor(n)' /\ OpenFor(a)'
  BY <1>1, <1>2, <1>3 DEF NamedFor, OpenFor, TypeOK, Early
<1>6. ASSUME n \notin crossed'
      PROVE  Aside(n)' /\ InPlace(n)'
  <2>1. Aside(n) /\ InPlace(n) /\ a \in Writing(n)
    BY <1>1, <1>2, <1>6 DEF WholeInv, Writing
  <2>2. Writing(n)' = {}
    BY <1>1, <1>2, <2>1 DEF Writing, TypeOK, Aside
  <2>3. Aside(n)'
    BY <1>3, <2>2 DEF Aside
  <2>4. temp[n] = fd[a] /\ content[temp[n]] = a /\ temp[n] \in Actions /\ a \notin failed
    BY <1>1, <1>2, <2>1 DEF Aside, OpenFor, Early, TypeOK
  <2>5. pc'[temp[n]] \notin {"idle", "open"} /\ pc'[a] = "record"
    BY <1>1, <1>2, <2>1, <2>4 DEF Aside, TypeOK
  <2>6. InPlace(n)'
    BY <1>2, <1>3, <2>4, <2>5 DEF InPlace, Early
  <2> QED
    BY <2>3, <2>6
<1>7. \A row \in rows' : row.action # a
  BY <1>2, NoRowYet DEF Early
<1> QED
  BY <1>2, <1>4, <1>5, <1>6, <1>7, Local

LEMMA RemoveKeeps ==
  ASSUME WholeInv, TypeOK', NEW a \in Actions, Remove(a)
  PROVE  WholeInv'
<1> USE NameAssumption, NoneAssumption
<1> DEFINE n == Name[a]
<1>1. n \in Names /\ TypeOK /\ NamedFor(n) /\ OpenFor(a)
  BY DEF WholeInv
<1>2. /\ temp' \in {temp, [temp EXCEPT ![n] = None]} /\ failed' = failed \union {a}
      /\ pc[a] = "remove" /\ pc' = [pc EXCEPT ![a] = "record"]
      /\ UNCHANGED <<fd, content, file, rows, crossed>>
  BY DEF Remove, GoTo
<1>3. temp'[n] \in {temp[n], None}
  BY <1>1, <1>2 DEF TypeOK
<1>4. Apart(a)
  BY <1>1, <1>2 DEF Apart, TypeOK
<1>5. NamedFor(n)' /\ OpenFor(a)'
  BY <1>1, <1>2, <1>3 DEF NamedFor, OpenFor, TypeOK, Early
<1>6. ASSUME n \notin crossed'
      PROVE  Aside(n)' /\ InPlace(n)'
  <2>1. Aside(n) /\ InPlace(n)
    BY <1>1, <1>2, <1>6 DEF WholeInv
  <2>2. Writing(n)' = Writing(n)
    BY <1>1, <1>2 DEF Writing, TypeOK
  <2>3. \A b \in Actions \ {a} : pc'[b] = pc[b] /\ (b \in failed' <=> b \in failed)
    BY <1>1, <1>2 DEF TypeOK
  <2>4. \A b \in Actions : pc'[b] \in {"idle", "open"} => pc[b] \in {"idle", "open"}
    BY <1>1, <1>2 DEF TypeOK
  <2>5. \A b \in Writing(n) : b \in Actions /\ pc'[b] = pc[b] /\ fd[b] \in Actions
    BY <1>1, <1>2, <2>3 DEF Writing, WholeInv, OpenFor, TypeOK
  <2>6. temp'[n] # None => temp'[n] # file[n] /\ pc'[temp'[n]] \notin {"idle", "open"}
    BY <1>1, <1>3, <2>1, <2>4 DEF Aside, TypeOK
  <2>7. Aside(n)'
    BY <1>2, <1>3, <2>1, <2>2, <2>4, <2>5, <2>6 DEF Aside
  <2>8. file[n] # None =>
          /\ content[file[n]] # a /\ pc'[file[n]] \notin {"idle", "open"}
          /\ pc'[content[file[n]]] = pc[content[file[n]]]
    BY <1>1, <1>2, <2>1, <2>4 DEF InPlace, Early, TypeOK
  <2>9. a \in failed'
    BY <1>2
  <2>10. InPlace(n)'
    BY <1>1, <1>2, <2>1, <2>3, <2>8, <2>9 DEF InPlace
  <2> QED
    BY <2>7, <2>10
<1>7. \A row \in rows' : row.action # a
  BY <1>2, NoRowYet DEF Early
<1> QED
  BY <1>2, <1>4, <1>5, <1>6, <1>7, Local

(* The row says what Execute returned; whoever succeeded has left a file.  *)
LEMMA RecordKeeps ==
  ASSUME WholeInv, TypeOK', NEW a \in Actions, Record(a)
  PROVE  WholeInv'
<1> USE NameAssumption, NoneAssumption
<1> DEFINE n == Name[a]
           new == [action |-> a, status |-> Status(a)]
<1>1. n \in Names /\ TypeOK /\ NamedFor(n) /\ OpenFor(a)
  BY DEF WholeInv
<1>2. /\ rows' = rows \union {new}
      /\ pc[a] = "record" /\ pc' = [pc EXCEPT ![a] = "broadcast"]
      /\ UNCHANGED <<failed, fd, content, temp, file, crossed>>
  BY DEF Record, GoTo
<1>3. /\ new.action = a /\ (new.status = "failed" <=> a \in failed)
      /\ new.status = "success" => a \notin failed
  BY DEF Status
<1>4. Apart(a)
  BY <1>1, <1>2 DEF Apart, TypeOK
<1>5. NamedFor(n)' /\ OpenFor(a)'
  BY <1>1, <1>2 DEF NamedFor, OpenFor, TypeOK, Early
<1>6. ASSUME n \notin crossed'
      PROVE  Aside(n)' /\ InPlace(n)'
  <2>1. Aside(n) /\ InPlace(n)
    BY <1>1, <1>2, <1>6 DEF WholeInv
  <2>2. Writing(n)' = Writing(n)
    BY <1>1, <1>2 DEF Writing, TypeOK
  <2>3. \A b \in Actions \ {a} : pc'[b] = pc[b]
    BY <1>1, <1>2 DEF TypeOK
  <2>4. \A b \in Actions :
          /\ pc'[b] \in {"idle", "open"} => pc[b] \in {"idle", "open"}
          /\ pc'[b] \in Early => pc[b] \in Early
    BY <1>1, <1>2 DEF TypeOK, Early
  <2>5. \A b \in Writing(n) : b \in Actions /\ pc'[b] = pc[b] /\ fd[b] \in Actions
    BY <1>1, <1>2, <2>3 DEF Writing, WholeInv, OpenFor, TypeOK
  <2>6. Aside(n)'
    BY <1>1, <1>2, <2>1, <2>2, <2>4, <2>5 DEF Aside, TypeOK
  <2>7. a \notin failed => file[n] # None
    BY <1>2, <2>1 DEF InPlace
  <2>8. file[n] # None =>
          /\ pc'[file[n]] \notin {"idle", "open"} /\ pc'[content[file[n]]] \notin Early
    BY <1>1, <2>1, <2>4 DEF InPlace, TypeOK
  <2>9. \A row \in rows' : Name[row.action] = n /\ row.status = "success" => file[n] # None
    BY <1>2, <1>3, <2>1, <2>7 DEF InPlace
  <2>10. \A b \in Actions :
           Name[b] = n /\ pc'[b] \in {"record", "broadcast", "done"} /\ b \notin failed
             => file[n] # None
    BY <2>1, <2>3, <2>7 DEF InPlace
  <2>11. InPlace(n)'
    BY <1>2, <2>1, <2>8, <2>9, <2>10 DEF InPlace
  <2> QED
    BY <2>6, <2>11
<1>7. ASSUME NEW row \in rows', row.action = a
      PROVE  RowTrue(row)'
  <2>1. row = new \/ (row \in rows /\ RowTrue(row))
    BY <1>2 DEF WholeInv
  <2>2. pc'[a] \notin Early
    BY <1>1, <1>2 DEF TypeOK, Early
  <2> QED
    BY <1>2, <1>3, <1>7, <2>1, <2>2 DEF RowTrue
<1> QED
  BY <1>2, <1>4, <1>5, <1>6, <1>7, Local

(* The other steps move no file and add no row.                            *)
LEMMA GoingOnKeeps ==
  ASSUME WholeInv, TypeOK', NEW a \in Actions,
         Fire(a) \/ RenameFails(a) \/ RecordFails(a) \/ Broadcast(a)
  PROVE  WholeInv'
<1> USE NameAssumption, NoneAssumption
<1> DEFINE n == Name[a]
<1>1. n \in Names /\ TypeOK /\ NamedFor(n) /\ OpenFor(a)
  BY DEF WholeInv
<1>2. /\ UNCHANGED <<failed, fd, content, temp, file, rows, crossed>>
      /\ pc' = [pc EXCEPT ![a] = pc'[a]]
      /\ pc[a] \in {"idle", "rename", "record", "broadcast"}
      /\ pc[a] = "idle" => pc'[a] = "open"
      /\ pc[a] = "rename" => pc'[a] = "remove"
      /\ pc[a] \in {"record", "broadcast"} => pc'[a] \in {"broadcast", "done"}
  BY <1>1 DEF Fire, RenameFails, RecordFails, Broadcast, GoTo, TypeOK
<1>3. Apart(a)
  BY <1>1, <1>2 DEF Apart, TypeOK
<1>4. NamedFor(n)' /\ OpenFor(a)'
  BY <1>1, <1>2 DEF NamedFor, OpenFor, TypeOK, Early
<1>5. ASSUME n \notin crossed'
      PROVE  Aside(n)' /\ InPlace(n)'
  <2>1. Aside(n) /\ InPlace(n)
    BY <1>1, <1>2, <1>5 DEF WholeInv
  <2>2. Writing(n)' = Writing(n) \ {a} \/ Writing(n)' = Writing(n)
    BY <1>1, <1>2 DEF Writing, TypeOK
  <2>3. \A b \in Actions \ {a} : pc'[b] = pc[b]
    BY <1>1, <1>2 DEF TypeOK
  <2>4. \A b \in Actions :
          /\ pc'[b] \in {"idle", "open"} => pc[b] \in {"idle", "open"}
          /\ pc'[b] \in Early => pc[b] \in Early
          /\ pc'[b] \in {"record", "broadcast", "done"} => pc[b] \in {"record", "broadcast", "done"}
    BY <1>1, <1>2 DEF TypeOK, Early
  <2>5. \A b \in Writing(n)' :
          b \in Writing(n) /\ b \in Actions /\ pc'[b] = pc[b] /\ fd[b] \in Actions
    <3> TAKE b \in Writing(n)'
    <3>1. b \in Writing(n) /\ b \in Actions /\ pc'[b] \in {"write", "rename"}
      BY <2>2 DEF Writing
    <3> QED
      BY <1>1, <1>2, <2>3, <3>1 DEF WholeInv, OpenFor, TypeOK
  <2>6. Aside(n)'
    BY <1>1, <1>2, <2>1, <2>4, <2>5 DEF Aside, TypeOK
  <2>7. InPlace(n)'
    BY <1>1, <1>2, <2>1, <2>4 DEF InPlace, TypeOK
  <2> QED
    BY <2>6, <2>7
<1>6. ASSUME NEW row \in rows', row.action = a
      PROVE  RowTrue(row)'
  <2>1. row \in rows /\ RowTrue(row)
    BY <1>2 DEF WholeInv
  <2> QED
    BY <1>2, <1>6, <2>1 DEF RowTrue, Early
<1> QED
  BY <1>2, <1>3, <1>4, <1>5, <1>6, Local

(* The end of the process takes goroutines, not files or rows.             *)
LEMMA StopKeeps ==
  ASSUME WholeInv, TypeOK', Stop
  PROVE  WholeInv'
<1> USE NameAssumption, NoneAssumption DEF WholeInv
<1>1. UNCHANGED <<failed, fd, content, temp, file, rows, crossed>>
  BY DEF Stop
<1>2. \A a \in Actions : pc'[a] = IF pc[a] \in {"idle", "done"} THEN pc[a] ELSE "lost"
  BY DEF Stop
<1>3. \A a \in Actions :
        /\ pc'[a] \in {"idle", "open"} => pc[a] \in {"idle", "open"}
        /\ pc'[a] \in Early => pc[a] \in Early
        /\ pc'[a] \in {"record", "broadcast", "done"} => pc[a] \in {"record", "broadcast", "done"}
        /\ pc'[a] \notin {"write", "rename"}
  BY <1>2 DEF Early
<1>4. ASSUME NEW n \in Names
      PROVE  NamedFor(n)' /\ Writing(n)' = {}
  BY <1>1, <1>3 DEF NamedFor, Writing
<1>5. ASSUME NEW a \in Actions
      PROVE  OpenFor(a)'
  BY <1>1, <1>3 DEF OpenFor
<1>6. ASSUME NEW n \in Names \ crossed
      PROVE  Aside(n)' /\ InPlace(n)'
  <2>1. Aside(n) /\ InPlace(n) /\ Writing(n)' = {}
    BY <1>4
  <2>2. Aside(n)'
    BY <1>1, <1>3, <2>1 DEF Aside, TypeOK
  <2>3. InPlace(n)'
    BY <1>1, <1>3, <2>1 DEF InPlace, TypeOK
  <2> QED
    BY <2>2, <2>3
<1>7. ASSUME NEW row \in rows
      PROVE  RowTrue(row)'
  <2>1. row.action \in Actions /\ RowTrue(row)
    BY DEF TypeOK
  <2> QED
    BY <1>1, <1>3, <2>1 DEF RowTrue
<1> QED
  BY <1>1, <1>4, <1>5, <1>6, <1>7

-----------------------------------------------------------------------------

LEMMA WholeInvHolds == Spec => []WholeInv
<1>1. Init => WholeInv
  BY NameAssumption, BoundsAssumption
     DEF Init, WholeInv, TypeOK, Steps, NamedFor, OpenFor, Aside, InPlace, RowTrue, Writing
<1>2. WholeInv /\ TypeOK' /\ [Next]_vars => WholeInv'
  <2> SUFFICES ASSUME WholeInv, TypeOK', [Next]_vars
               PROVE  WholeInv'
    OBVIOUS
  <2>1. CASE UNCHANGED vars
    BY <2>1 DEF vars, WholeInv, TypeOK, NamedFor, OpenFor, Aside, InPlace, RowTrue, Writing
  <2>2. CASE Stop
    BY <2>2, StopKeeps
  <2>3. ASSUME NEW a \in Actions, Fire(a) \/ Step(a)
        PROVE  WholeInv'
    BY <2>3, OpenKeeps, WriteKeeps, WriteFailsKeeps, RenameKeeps, RemoveKeeps,
       RecordKeeps, GoingOnKeeps DEF Step
  <2>4. QED
    BY <2>1, <2>2, <2>3 DEF Next
<1>3. QED
  BY <1>1, <1>2, TypeCorrect, PTL DEF Spec

(* Whoever reads the directory finds whole records, whatever fails and     *)
(* whenever the process ends, under any name on which no two goroutines    *)
(* have met, however many actions have it.                                 *)
THEOREM FilesAreWholeHolds == Spec => []FilesAreWhole
<1>1. WholeInv => FilesAreWhole
  BY DEF WholeInv, InPlace, FilesAreWhole
<1>2. QED
  BY <1>1, WholeInvHolds, PTL

(* And the rows of rule_executions tell what the directory holds there.    *)
THEOREM RowsTellTheTruthHolds == Spec => []RowsTellTheTruth
<1>1. ASSUME WholeInv, NEW row \in rows, Name[row.action] \notin crossed
      PROVE  LET inode == file[Name[row.action]]
             IN  /\ row.status = "success" => inode # None /\ content[inode] \in Actions \ failed
                 /\ row.status = "failed" => inode = None \/ content[inode] # row.action
  <2>1. Name[row.action] \in Names
    BY <1>1, NameAssumption DEF WholeInv, TypeOK
  <2>2. InPlace(Name[row.action]) /\ RowTrue(row)
    BY <1>1, <2>1 DEF WholeInv
  <2> QED
    BY <1>1, <2>2 DEF InPlace, RowTrue
<1>2. WholeInv => RowsTellTheTruth
  BY <1>1 DEF RowsTellTheTruth
<1>3. QED
  BY <1>2, WholeInvHolds, PTL

-----------------------------------------------------------------------------
(* The page.                                                               *)

Injective(s) == \A i, j \in DOMAIN s : s[i] = s[j] => i = j

Once(s, e) == \A i, j \in DOMAIN s : s[i] = e /\ s[j] = e => i = j

AtMostTwice(s, e) ==
  \A i, j, k \in DOMAIN s : s[i] = e /\ s[j] = e /\ s[k] = e => i = j \/ j = k \/ i = k

(* What is on its way is there once, and its goroutine has gone on.        *)
OnItsWay ==
  /\ Injective(channel)
  /\ \A e \in Shown(channel) : at[e] = "done"
  /\ covered => stream = "open"

(* A snapshot, or the page, has all that was recorded, with what excuses it.*)
Complete(s) ==
  \A e \in recorded : at[e] = "done" =>
    e \in Shown(s) \union Shown(channel) \union dropped \union early \/ Len(s) = Limit

SnapshotComplete ==
  fetch = "answered" /\ answer \notin NotLists =>
    /\ Injective(answer)
    /\ covered => Complete(answer)

PageComplete ==
  fetch = "over" /\ list \notin NotLists /\ covered => Complete(list)

(* What the stream may still bring is on the page only from the snapshot.  *)
Pending(e) == at[e] # "done" \/ e \in Shown(channel)

Counted(e) ==
  \/ Once(list, e) /\ (e \in Shown(list) => ~Pending(e))
  \/ /\ fetch = "over" /\ Once(list, e)
     /\ Pending(e) => e \in Shown(answer)
  \/ /\ fetch = "over" /\ AtMostTwice(list, e)
     /\ e \in Shown(answer) /\ ~Pending(e)

PageInv ==
  /\ PageTypeOK
  /\ IsFiniteSet(recorded)
  /\ OnItsWay
  /\ SnapshotComplete
  /\ PageComplete
  /\ list \notin NotLists => \A e \in Executions : Counted(e)

-----------------------------------------------------------------------------

LEMMA ListType ==
  ASSUME NEW s
  PROVE  s \in Lists <=> s \in Seq(Executions) /\ Len(s) <= Limit
<1>1. ASSUME s \in Lists
      PROVE  s \in Seq(Executions) /\ Len(s) <= Limit
  <2>1. PICK n \in 0..Limit : s \in [1..n -> Executions]
    BY <1>1 DEF Lists
  <2>2. n \in Nat /\ n <= Limit
    BY <2>1, SizesAssumption
  <2>3. s \in Seq(Executions)
    BY <2>1, <2>2, SeqDef
  <2>4. Len(s) = n
    BY <2>1, <2>2, <2>3, LenProperties
  <2> QED
    BY <2>2, <2>3, <2>4
<1>2. ASSUME s \in Seq(Executions), Len(s) <= Limit
      PROVE  s \in Lists
  <2>1. Len(s) \in 0..Limit /\ s \in [1..Len(s) -> Executions]
    BY <1>2, LenProperties, SizesAssumption
  <2> QED
    BY <2>1 DEF Lists
<1> QED
  BY <1>1, <1>2

LEMMA OnceCount ==
  ASSUME NEW s \in Seq(Executions), NEW e, Once(s, e)
  PROVE  Cardinality({i \in DOMAIN s : s[i] = e}) \in {0, 1}
<1> DEFINE places == {i \in DOMAIN s : s[i] = e}
<1>1. CASE places = {}
  BY <1>1, FS_EmptySet
<1>2. CASE places # {}
  <2>1. PICK i : i \in places
    BY <1>2
  <2>2. places = {i}
    BY <2>1 DEF Once
  <2>3. Cardinality({i}) = 1
    BY FS_Singleton
  <2> QED
    BY <2>2, <2>3
<1> QED
  BY <1>1, <1>2

LEMMA PairCount ==
  ASSUME NEW i, NEW j, i # j
  PROVE  Cardinality({i} \union {j}) = 2
<1>1. IsFiniteSet({i}) /\ Cardinality({i}) = 1
  BY FS_Singleton
<1>2. Cardinality({i} \union {j}) = IF j \in {i} THEN Cardinality({i}) ELSE Cardinality({i}) + 1
  BY <1>1, FS_AddElement
<1>3. j \notin {i}
  OBVIOUS
<1> QED
  BY <1>1, <1>2, <1>3

LEMMA TwiceCount ==
  ASSUME NEW s \in Seq(Executions), NEW e, AtMostTwice(s, e)
  PROVE  Cardinality({i \in DOMAIN s : s[i] = e}) \in {0, 1, 2}
<1> DEFINE places == {i \in DOMAIN s : s[i] = e}
<1>1. CASE Once(s, e)
  BY <1>1, OnceCount
<1>2. CASE ~Once(s, e)
  <2>1. PICK i \in places, j \in places : i # j
    BY <1>2 DEF Once
  <2>2. \A k \in places : k = i \/ k = j
    BY <2>1 DEF AtMostTwice
  <2>3. places = {i} \union {j}
    BY <2>1, <2>2
  <2> HIDE DEF places
  <2>4. Cardinality(places) = 2
    BY <2>1, <2>3, PairCount
  <2> QED
    BY <2>4 DEF places
<1> QED
  BY <1>1, <1>2

(* The page's list after a message.                                        *)
LEMMA TopType ==
  ASSUME NEW l \in Lists, NEW c \in Executions
  PROVE  LET t == Top(<<c>> \o l)
         IN  /\ t \in Lists
             /\ DOMAIN t = 1..Len(t) /\ DOMAIN l = 1..Len(l)
             /\ Len(t) = (IF Len(l) < Limit THEN Len(l) + 1 ELSE Limit)
             /\ Len(t) \in Nat /\ Len(t) > 0 /\ Len(l) \in Nat
             /\ t[1] = c
             /\ \A i \in 2..Len(t) : i - 1 \in DOMAIN l /\ t[i] = l[i - 1]
<1> DEFINE s == <<c>> \o l
           m == IF Len(s) < Limit THEN Len(s) ELSE Limit
           t == SubSeq(s, 1, m)
<1>1. l \in Seq(Executions) /\ Len(l) <= Limit /\ Limit \in Nat /\ Limit > 0
  BY ListType, SizesAssumption
<1>2. PICK n \in Nat : n = Len(l)
  BY <1>1
<1>3. /\ s \in Seq(Executions) /\ Len(s) = n + 1
      /\ \A i \in 1..(n + 1) : s[i] = IF i <= 1 THEN c ELSE l[i - 1]
  <2>1. <<c>> \in Seq(Executions) /\ Len(<<c>>) = 1 /\ <<c>>[1] = c
    OBVIOUS
  <2>2. /\ s \in Seq(Executions) /\ Len(s) = 1 + n
        /\ \A i \in 1..(1 + n) : s[i] = IF i <= 1 THEN <<c>>[i] ELSE l[i - 1]
    BY <1>1, <1>2, <2>1, ConcatProperties
  <2> HIDE DEF s
  <2>3. \A i \in 1..(n + 1) : i <= 1 => i = 1
    BY <1>2
  <2>4. 1 + n = n + 1
    BY <1>2
  <2> QED
    BY <2>1, <2>2, <2>3, <2>4
<1> HIDE DEF s
<1>4. /\ m \in Nat /\ m >= 1 /\ m <= n + 1
      /\ m = (IF n < Limit THEN n + 1 ELSE Limit)
  BY <1>1, <1>2, <1>3
<1> HIDE DEF m
<1>5. \A i \in 1..m : s[i] \in Executions
  BY <1>3, <1>4, ElementOfSeq
<1>6. /\ t \in Seq(Executions) /\ Len(t) = m
      /\ \A i \in 1..m : t[i] = s[i]
  <2>1. /\ SubSeq(s, 1, m) \in Seq(Executions)
        /\ Len(SubSeq(s, 1, m)) = IF 1 <= m THEN m - 1 + 1 ELSE 0
        /\ \A i \in 1..(m - 1 + 1) : SubSeq(s, 1, m)[i] = s[1 + i - 1]
    BY <1>4, <1>5, SubSeqProperties
  <2>2. m - 1 + 1 = m /\ 1 <= m /\ \A i \in 1..m : 1 + i - 1 = i
    BY <1>4
  <2> QED
    BY <2>1, <2>2
<1>7. Top(<<c>> \o l) = t
  BY DEF Top, s, m
<1> HIDE DEF t
<1>8. t \in Lists
  BY <1>1, <1>4, <1>6, ListType
<1>9. t[1] = c
  BY <1>2, <1>3, <1>4, <1>6
<1>10. ASSUME NEW i \in 2..m
       PROVE  i - 1 \in 1..n /\ t[i] = l[i - 1]
  <2>1. i \in 1..m /\ i \in 1..(n + 1) /\ ~(i <= 1) /\ i - 1 \in 1..n
    BY <1>2, <1>4
  <2> QED
    BY <1>3, <1>6, <2>1
<1>11. DOMAIN t = 1..m /\ DOMAIN l = 1..n
  BY <1>1, <1>2, <1>6
<1> QED
  BY <1>2, <1>4, <1>6, <1>7, <1>8, <1>9, <1>10, <1>11

LEMMA TopShown ==
  ASSUME NEW l \in Lists, NEW c \in Executions
  PROVE  LET t == Top(<<c>> \o l)
         IN  /\ Shown(t) \subseteq Shown(l) \union {c}
             /\ Len(t) = Limit \/ Shown(t) = Shown(l) \union {c}
             /\ Len(l) = Limit => Len(t) = Limit
<1> DEFINE t == Top(<<c>> \o l)
<1>1. /\ DOMAIN t = 1..Len(t) /\ DOMAIN l = 1..Len(l)
      /\ Len(t) = (IF Len(l) < Limit THEN Len(l) + 1 ELSE Limit)
      /\ Len(t) \in Nat /\ Len(t) > 0 /\ Len(l) \in Nat /\ t[1] = c
      /\ \A i \in 2..Len(t) : i - 1 \in DOMAIN l /\ t[i] = l[i - 1]
  BY TopType
<1> HIDE DEF t
<1>2. PICK n \in Nat : n = Len(l)
  BY <1>1
<1>3. ASSUME NEW i \in DOMAIN t
      PROVE  t[i] \in Shown(l) \union {c}
  <2>1. i = 1 \/ i \in 2..Len(t)
    BY <1>1
  <2> QED
    BY <1>1, <2>1 DEF Shown
<1>4. ASSUME Len(l) < Limit, NEW i \in DOMAIN l
      PROVE  l[i] \in Shown(t)
  <2>1. i + 1 \in DOMAIN t /\ i + 1 \in 2..Len(t) /\ (i + 1) - 1 = i
    BY <1>1, <1>4
  <2>2. t[i + 1] = l[i]
    BY <1>1, <2>1
  <2> QED
    BY <2>1, <2>2 DEF Shown
<1>5. c \in Shown(t)
  <2>1. 1 \in DOMAIN t
    BY <1>1
  <2> QED
    BY <1>1, <2>1 DEF Shown
<1>6. Shown(t) \subseteq Shown(l) \union {c}
  BY <1>3 DEF Shown
<1>7. Len(l) < Limit => Shown(t) = Shown(l) \union {c}
  BY <1>4, <1>5, <1>6 DEF Shown
<1>8. n = Limit \/ n > Limit => Len(t) = Limit
  <2>1. Len(t) = IF n < Limit THEN n + 1 ELSE Limit
    BY <1>1, <1>2
  <2>2. n = Limit \/ n > Limit => ~(n < Limit)
    BY SizesAssumption
  <2> QED
    BY <2>1, <2>2
<1>9. n < Limit \/ n = Limit \/ n > Limit
  BY SizesAssumption
<1>10. Len(t) = Limit \/ Shown(t) = Shown(l) \union {c}
  BY <1>2, <1>7, <1>8, <1>9
<1>11. Len(l) = Limit => Len(t) = Limit
  BY <1>2, <1>8
<1> QED
  BY <1>6, <1>10, <1>11 DEF t

LEMMA TopOnce ==
  ASSUME NEW l \in Lists, NEW c \in Executions, NEW e \in Executions, Once(l, e)
  PROVE  LET t == Top(<<c>> \o l)
         IN  /\ c # e \/ e \notin Shown(l) => Once(t, e)
             /\ AtMostTwice(t, e)
<1> DEFINE t == Top(<<c>> \o l)
<1>1. /\ DOMAIN t = 1..Len(t) /\ Len(t) \in Nat /\ t[1] = c
      /\ \A i \in 2..Len(t) : i - 1 \in DOMAIN l /\ t[i] = l[i - 1]
  BY TopType
<1> HIDE DEF t
<1>2. ASSUME NEW i \in DOMAIN t, NEW j \in DOMAIN t, t[i] = e, t[j] = e, i # 1, j # 1
      PROVE  i = j
  <2>1. i \in 2..Len(t) /\ j \in 2..Len(t)
    BY <1>1, <1>2
  <2>2. l[i - 1] = e /\ l[j - 1] = e /\ i - 1 \in DOMAIN l /\ j - 1 \in DOMAIN l
    BY <1>1, <1>2, <2>1
  <2>3. i - 1 = j - 1
    BY <2>2 DEF Once
  <2> QED
    BY <2>1, <2>3
<1>3. AtMostTwice(t, e)
  BY <1>2 DEF AtMostTwice
<1>4. ASSUME c # e \/ e \notin Shown(l)
      PROVE  Once(t, e)
  <2>1. CASE c # e
    <3>1. \A i \in DOMAIN t : t[i] = e => i # 1
      BY <1>1, <2>1
    <3> QED
      BY <1>2, <3>1 DEF Once
  <2>2. CASE e \notin Shown(l)
    <3>1. ASSUME NEW i \in DOMAIN t, t[i] = e
          PROVE  i = 1
      <4>1. CASE i \in 2..Len(t)
        BY <1>1, <2>2, <3>1, <4>1 DEF Shown
      <4> QED
        BY <1>1, <4>1
    <3> QED
      BY <3>1 DEF Once
  <2> QED
    BY <1>4, <2>1, <2>2
<1> QED
  BY <1>3, <1>4 DEF t

LEMMA TopTwice ==
  ASSUME NEW l \in Lists, NEW c \in Executions, NEW e \in Executions,
         c # e, AtMostTwice(l, e)
  PROVE  AtMostTwice(Top(<<c>> \o l), e)
<1> DEFINE t == Top(<<c>> \o l)
<1>1. /\ DOMAIN t = 1..Len(t) /\ Len(t) \in Nat /\ t[1] = c
      /\ \A i \in 2..Len(t) : i - 1 \in DOMAIN l /\ t[i] = l[i - 1]
  BY TopType
<1> HIDE DEF t
<1>2. ASSUME NEW i \in DOMAIN t, t[i] = e
      PROVE  i \in Int /\ i - 1 \in DOMAIN l /\ l[i - 1] = e
  <2>1. i # 1
    BY <1>1, <1>2
  <2>2. i \in 2..Len(t)
    BY <1>1, <2>1
  <2> QED
    BY <1>1, <1>2, <2>2
<1>3. ASSUME NEW i \in DOMAIN t, NEW j \in DOMAIN t, NEW k \in DOMAIN t,
             t[i] = e, t[j] = e, t[k] = e
      PROVE  i = j \/ j = k \/ i = k
  <2>1. i - 1 = j - 1 \/ j - 1 = k - 1 \/ i - 1 = k - 1
    BY <1>2, <1>3 DEF AtMostTwice
  <2> QED
    BY <1>2, <1>3, <2>1
<1>4. AtMostTwice(t, e)
  BY <1>3 DEF AtMostTwice
<1> QED
  BY <1>4 DEF t


-----------------------------------------------------------------------------

LEMMA SentOnce ==
  ASSUME NEW c \in Seq(Executions), NEW e \in Executions, Injective(c), e \notin Shown(c)
  PROVE  LET now == Append(c, e)
         IN  /\ now \in Seq(Executions) /\ Len(now) = Len(c) + 1
             /\ Shown(now) = Shown(c) \union {e} /\ Injective(now)
<1> DEFINE now == Append(c, e)
<1>1. PICK n \in Nat : n = Len(c)
  OBVIOUS
<1>2. /\ now \in Seq(Executions) /\ Len(now) = n + 1
      /\ now[n + 1] = e /\ \A i \in 1..n : now[i] = c[i]
  BY <1>1, AppendProperties
<1>3. DOMAIN now = 1..(n + 1) /\ DOMAIN c = 1..n
  BY <1>1, <1>2
<1> HIDE DEF now
<1>4. \A i \in DOMAIN now : i = n + 1 \/ i \in DOMAIN c
  BY <1>3
<1>5. \A i \in DOMAIN c : i \in DOMAIN now /\ now[i] = c[i] /\ now[i] # e
  BY <1>2, <1>3 DEF Shown
<1>6. n + 1 \in DOMAIN now
  BY <1>3
<1>7. Shown(now) = Shown(c) \union {e}
  BY <1>2, <1>4, <1>5, <1>6 DEF Shown
<1>8. Injective(now)
  BY <1>2, <1>4, <1>5 DEF Injective
<1> QED
  BY <1>1, <1>2, <1>7, <1>8 DEF now

LEMMA ReceivedOnce ==
  ASSUME NEW c \in Seq(Executions), c # <<>>, Injective(c)
  PROVE  /\ Head(c) \in Executions /\ Tail(c) \in Seq(Executions)
         /\ Len(Tail(c)) = Len(c) - 1
         /\ Shown(c) = Shown(Tail(c)) \union {Head(c)} /\ Head(c) \notin Shown(Tail(c))
         /\ Injective(Tail(c))
<1> DEFINE rest == Tail(c)
<1>1. PICK n \in Nat : n = Len(c)
  OBVIOUS
<1>2. n > 0 /\ Head(c) = c[1]
  BY <1>1
<1>3. /\ Head(c) \in Executions /\ rest \in Seq(Executions) /\ Len(rest) = n - 1
      /\ \A i \in 1..(n - 1) : rest[i] = c[i + 1]
  BY <1>1, HeadTailProperties
<1>4. DOMAIN rest = 1..(n - 1) /\ DOMAIN c = 1..n
  BY <1>1, <1>3
<1> HIDE DEF rest
<1>5. \A i \in DOMAIN rest : i + 1 \in DOMAIN c /\ rest[i] = c[i + 1] /\ i + 1 # 1
  BY <1>2, <1>3, <1>4
<1>6. \A i \in DOMAIN c : i = 1 \/ (i - 1 \in DOMAIN rest /\ rest[i - 1] = c[i])
  <2>1. ASSUME NEW i \in 1..n, i # 1
        PROVE  i - 1 \in 1..(n - 1) /\ rest[i - 1] = c[i]
    <3>1. i - 1 \in 1..(n - 1) /\ (i - 1) + 1 = i
      BY <2>1
    <3> QED
      BY <1>3, <3>1
  <2> QED
    BY <1>4, <2>1
<1>7. 1 \in DOMAIN c
  BY <1>2, <1>4
<1>8. Shown(c) = Shown(rest) \union {Head(c)}
  BY <1>2, <1>5, <1>6, <1>7 DEF Shown
<1>9. Head(c) \notin Shown(rest)
  BY <1>2, <1>5, <1>7 DEF Shown, Injective
<1>10. Injective(rest)
  <2>1. ASSUME NEW i \in DOMAIN rest, NEW j \in DOMAIN rest, rest[i] = rest[j]
        PROVE  i = j
    <3>1. i + 1 = j + 1
      BY <1>5, <2>1 DEF Injective
    <3> QED
      BY <1>4, <2>1, <3>1
  <2> QED
    BY <2>1 DEF Injective
<1> QED
  BY <1>1, <1>3, <1>8, <1>9, <1>10 DEF rest

(* A snapshot shows nothing twice, and everything unless it is full.       *)
LEMMA LatestShown ==
  ASSUME NEW set \in SUBSET Executions, IsFiniteSet(set), NEW s \in Latest(set)
  PROVE  s \in Lists /\ Injective(s) /\ (Len(s) = Limit \/ Shown(s) = set)
<1> DEFINE n == IF Cardinality(set) < Limit THEN Cardinality(set) ELSE Limit
<1>1. Cardinality(set) \in Nat
  BY FS_CardinalityType
<1>2. n \in Nat /\ n <= Limit
  BY <1>1, SizesAssumption
<1>3. /\ s \in [1..n -> set]
      /\ \A i, j \in 1..n : i < j => s[i] # s[j]
  BY DEF Latest
<1>4. n = Limit \/ n = Cardinality(set)
  OBVIOUS
<1> HIDE DEF n
<1>5. s \in Seq(set) /\ s \in [1..n -> Executions]
  BY <1>2, <1>3, SeqDef
<1>6. Len(s) = n /\ s \in Lists /\ DOMAIN s = 1..n
  BY <1>2, <1>3, <1>5, LenProperties, SizesAssumption DEF Lists
<1>7. Injective(s)
  <2>1. ASSUME NEW i \in 1..n, NEW j \in 1..n, s[i] = s[j]
        PROVE  i = j
    <3>1. ~(i < j) /\ ~(j < i)
      BY <1>3, <2>1
    <3> QED
      BY <1>2, <3>1
  <2> QED
    BY <1>6, <2>1 DEF Injective
<1>8. ASSUME n = Cardinality(set)
      PROVE  Shown(s) = set
  <2>1. s \in Injection(1..n, set)
    BY <1>3, <1>6, <1>7 DEF Injective, Injection, IsInjective
  <2>2. IsFiniteSet(1..n) /\ Cardinality(1..n) = n
    <3>1. /\ IsFiniteSet(1..n)
          /\ Cardinality(1..n) = IF 1 > n THEN 0 ELSE n - 1 + 1
      BY <1>2, FS_Interval
    <3> QED
      BY <1>2, <3>1
  <2>3. Cardinality(1..n) = Cardinality(set) <=> s \in Surjection(1..n, set)
    BY <2>1, FS_Injection
  <2>4. s \in Surjection(1..n, set)
    BY <1>8, <2>2, <2>3
  <2>5. \A e \in set : \E i \in 1..n : s[i] = e
    BY <2>4 DEF Surjection
  <2> QED
    BY <1>3, <1>6, <2>5 DEF Shown
<1> QED
  BY <1>4, <1>6, <1>7, <1>8


-----------------------------------------------------------------------------

LEMMA EmptyList == <<>> \in Lists /\ Shown(<<>>) = {} /\ Injective(<<>>)
<1>1. <<>> \in Seq(Executions) /\ Len(<<>>) = 0 /\ 0 <= Limit
  BY SizesAssumption
<1>2. DOMAIN <<>> = {}
  OBVIOUS
<1> QED
  BY <1>1, <1>2, ListType DEF Shown, Injective

LEMMA AfterSteps ==
  /\ After("idle") = "record" /\ After("record") = "broadcast" /\ After("broadcast") = "done"
  BY DEF After

(* What the steps other than Tell and Receive do to the channel, and to    *)
(* who has been told.                                                      *)
LEMMA QuietStep ==
  ASSUME PageTypeOK, [PageNext]_pageVars,
         ~(\E e \in Executions : Tell(e)), ~Receive
  PROVE  /\ channel' = channel \/ channel' = <<>>
         /\ \A e \in Executions : at[e] = "done" <=> at'[e] = "done"
         /\ Reload \/ UNCHANGED <<dropped, early>>
<1> USE DEF page, history
<1>1. ASSUME NEW e \in Executions, Execute(e) \/ RecordRow(e)
      PROVE  /\ UNCHANGED <<channel, dropped, early>>
             /\ \A f \in Executions : at[f] = "done" <=> at'[f] = "done"
  <2>1. /\ at[e] \in {"idle", "record"}
        /\ \E s \in {"record", "broadcast"} : at' = [at EXCEPT ![e] = s]
    BY <1>1, AfterSteps DEF Execute, RecordRow
  <2>2. ASSUME NEW f \in Executions
        PROVE  at[f] = "done" <=> at'[f] = "done"
    BY <2>1 DEF PageTypeOK
  <2> QED
    BY <1>1, <2>2 DEF Execute, RecordRow
<1>2. ASSUME Connect \/ Break \/ Query \/ QueryFails \/ Apply \/ FetchFails \/ UNCHANGED pageVars
      PROVE  /\ channel' = channel \/ channel' = <<>>
             /\ UNCHANGED <<at, dropped, early>>
  BY <1>2 DEF Connect, Break, Query, QueryFails, Apply, FetchFails, pageVars
<1>3. ASSUME Reload
      PROVE  channel' = <<>> /\ at' = at
  BY <1>3 DEF Reload
<1> QED
  BY <1>1, <1>2, <1>3 DEF PageNext

LEMMA PageTyped ==
  ASSUME PageTypeOK, IsFiniteSet(recorded), Injective(channel), [PageNext]_pageVars
  PROVE  PageTypeOK' /\ IsFiniteSet(recorded')
<1> USE DEF page, history
<1>1. ASSUME NEW e \in Executions, Execute(e)
      PROVE  PageTypeOK' /\ IsFiniteSet(recorded')
  BY <1>1, AfterSteps DEF Execute, PageTypeOK
<1>2. ASSUME NEW e \in Executions, RecordRow(e)
      PROVE  PageTypeOK' /\ IsFiniteSet(recorded')
  <2>1. recorded' = recorded \/ recorded' = recorded \union {e}
    BY <1>2 DEF RecordRow
  <2>2. IsFiniteSet(recorded')
    BY <2>1, FS_AddElement
  <2>3. recorded' \subseteq Executions
    BY <2>1 DEF PageTypeOK
  <2> QED
    BY <1>2, <2>2, <2>3, AfterSteps DEF RecordRow, PageTypeOK
<1>3. ASSUME NEW e \in Executions, Tell(e)
      PROVE  PageTypeOK' /\ IsFiniteSet(recorded')
  <2>1. /\ channel' \in Seq(Executions) /\ Len(channel') <= Capacity
        /\ dropped' \subseteq Executions
    <3>1. CASE UNCHANGED channel
      BY <1>3, <3>1 DEF Tell, Sent, PageTypeOK
    <3>2. CASE Len(channel) < Capacity /\ channel' = Append(channel, e) /\ UNCHANGED dropped
      <4>1. /\ Append(channel, e) \in Seq(Executions)
            /\ Len(Append(channel, e)) = Len(channel) + 1
        BY AppendProperties DEF PageTypeOK
      <4>2. Len(channel) \in Nat
        BY DEF PageTypeOK
      <4> QED
        BY <3>2, <4>1, <4>2, SizesAssumption DEF PageTypeOK
    <3> QED
      BY <1>3, <3>1, <3>2 DEF Tell, Sent
  <2> QED
    BY <1>3, <2>1, AfterSteps DEF Tell, PageTypeOK
<1>4. CASE Connect
  BY <1>4 DEF Connect, PageTypeOK
<1>5. CASE Break \/ Reload
  <2>1. <<>> \in Seq(Executions) /\ Len(<<>>) = 0 /\ 0 <= Capacity
    BY SizesAssumption
  <2> QED
    BY <1>5, <2>1, EmptyList DEF Break, Reload, PageTypeOK
<1>6. CASE Query
  <2>1. answer' = Null \/ answer' \in Latest(recorded)
    BY <1>6 DEF Query
  <2>2. answer' \in Lists \union NotLists
    BY <2>1, LatestShown DEF NotLists, PageTypeOK
  <2>3. covered' \in BOOLEAN
    BY <1>6 DEF Query, PageTypeOK
  <2> QED
    BY <1>6, <2>2, <2>3 DEF Query, PageTypeOK
<1>7. CASE QueryFails
  BY <1>7 DEF QueryFails, NotLists, PageTypeOK
<1>8. CASE Apply
  <2>1. crashed' \in BOOLEAN
    BY <1>8 DEF Apply
  <2> QED
    BY <1>8, <2>1 DEF Apply, PageTypeOK
<1>9. CASE FetchFails
  BY <1>9 DEF FetchFails, PageTypeOK
<1>10. CASE Receive
  <2>1. /\ Head(channel) \in Executions /\ channel' \in Seq(Executions)
        /\ Len(channel') <= Capacity
    <3>1. /\ Head(channel) \in Executions /\ Tail(channel) \in Seq(Executions)
          /\ Len(Tail(channel)) = Len(channel) - 1
      BY <1>10, ReceivedOnce DEF Receive, PageTypeOK
    <3>2. Len(channel) \in Nat
      BY DEF PageTypeOK
    <3> QED
      BY <1>10, <3>1, <3>2, SizesAssumption DEF Receive, PageTypeOK
  <2>2. list' \in Lists \union NotLists
    BY <1>10, <2>1, TopType DEF Receive, PageTypeOK
  <2>3. crashed' \in BOOLEAN /\ early' \subseteq Executions
    BY <1>10, <2>1 DEF Receive, PageTypeOK
  <2> QED
    BY <1>10, <2>1, <2>2, <2>3 DEF Receive, PageTypeOK
<1>11. CASE UNCHANGED pageVars
  BY <1>11 DEF pageVars, PageTypeOK
<1> QED
  BY <1>1, <1>2, <1>3, <1>4, <1>5, <1>6, <1>7, <1>8, <1>9, <1>10, <1>11 DEF PageNext

(* What a broadcast does to the channel.                                   *)
LEMMA TellSends ==
  ASSUME PageTypeOK, OnItsWay, NEW e \in Executions, Tell(e)
  PROVE  /\ at[e] = "broadcast" /\ at'[e] = "done"
         /\ \A f \in Executions \ {e} : at'[f] = at[f]
         /\ Injective(channel') /\ UNCHANGED early
         /\ \/ channel' = channel /\ dropped' = dropped /\ stream # "open"
            \/ Shown(channel') = Shown(channel) \union {e} /\ dropped' = dropped
            \/ channel' = channel /\ dropped' = dropped \union {e}
<1>1. /\ at[e] = "broadcast" /\ at' = [at EXCEPT ![e] = "done"] /\ Sent(e) /\ UNCHANGED early
  BY AfterSteps DEF Tell
<1>2. e \notin Shown(channel) /\ Injective(channel) /\ channel \in Seq(Executions)
  BY <1>1 DEF OnItsWay, PageTypeOK
<1>3. /\ \/ channel' = channel /\ dropped' = dropped /\ stream # "open"
         \/ channel' = Append(channel, e) /\ dropped' = dropped
         \/ channel' = channel /\ dropped' = dropped \union {e}
  BY <1>1 DEF Sent
<1> QED
  BY <1>1, <1>2, <1>3, SentOnce DEF PageTypeOK

LEMMA ReceiveTakes ==
  ASSUME PageTypeOK, OnItsWay, Receive
  PROVE  \E c \in Executions :
           /\ c \in Shown(channel) /\ c \notin Shown(channel')
           /\ Shown(channel) = Shown(channel') \union {c} /\ Injective(channel')
           /\ IF list \in NotLists THEN list' = list ELSE list' = Top(<<c>> \o list)
           /\ early' = IF fetch = "over" THEN early ELSE early \union {c}
           /\ UNCHANGED <<recorded, at, stream, fetch, answer, covered, dropped>>
<1>1. /\ Head(channel) \in Executions
      /\ Shown(channel) = Shown(Tail(channel)) \union {Head(channel)}
      /\ Head(channel) \notin Shown(Tail(channel)) /\ Injective(Tail(channel))
  BY ReceivedOnce DEF Receive, PageTypeOK, OnItsWay
<1> QED
  BY <1>1 DEF Receive

LEMMA OnItsWayKept ==
  ASSUME PageTypeOK, OnItsWay, [PageNext]_pageVars
  PROVE  OnItsWay'
<1> USE DEF page, history
<1>1. (covered => stream = "open")'
  <2>1. \/ covered' = FALSE \/ UNCHANGED <<covered, stream>>
        \/ Connect \/ Query
    BY DEF PageNext, Execute, RecordRow, Tell, Break, QueryFails, Apply, FetchFails,
           Receive, Reload, pageVars
  <2>2. Connect => stream' = "open"
    BY DEF Connect
  <2>3. Query /\ covered' => covered /\ stream' = stream
    BY DEF Query
  <2> QED
    BY <2>1, <2>2, <2>3 DEF OnItsWay
<1>2. ASSUME NEW e \in Executions, Tell(e)
      PROVE  OnItsWay'
  <2>1. /\ at'[e] = "done" /\ \A f \in Executions \ {e} : at'[f] = at[f]
        /\ Injective(channel') /\ Shown(channel') \subseteq Shown(channel) \union {e}
    BY <1>2, TellSends
  <2>2. Shown(channel) \subseteq Executions
    BY DEF PageTypeOK, Shown
  <2>3. \A f \in Shown(channel') : at'[f] = "done"
    BY <2>1, <2>2 DEF OnItsWay
  <2> QED
    BY <1>1, <2>1, <2>3 DEF OnItsWay
<1>3. CASE Receive
  BY <1>1, <1>3, ReceiveTakes DEF OnItsWay
<1>4. CASE ~(\E e \in Executions : Tell(e)) /\ ~Receive
  <2>1. /\ channel' = channel \/ channel' = <<>>
        /\ \A e \in Executions : at[e] = "done" <=> at'[e] = "done"
    BY <1>4, QuietStep
  <2>2. Shown(channel) \subseteq Executions
    BY DEF PageTypeOK, Shown
  <2>3. Injective(channel') /\ Shown(channel') \subseteq Shown(channel)
    BY <2>1, EmptyList DEF OnItsWay
  <2> QED
    BY <1>1, <2>1, <2>2, <2>3 DEF OnItsWay
<1> QED
  BY <1>2, <1>3, <1>4



-----------------------------------------------------------------------------

(* The goroutines of the actions leave complete what is complete: a row is *)
(* written before it is broadcast, and the stream is open.                 *)
LEMMA StillComplete ==
  ASSUME PageTypeOK, OnItsWay, covered, NEW s, Complete(s),
         \/ \E e \in Executions : Execute(e) \/ RecordRow(e) \/ Tell(e)
         \/ UNCHANGED pageVars
  PROVE  Complete(s)'
<1> USE DEF page, history
<1> SUFFICES ASSUME NEW e \in Executions, e \in recorded', at'[e] = "done"
             PROVE  e \in Shown(s) \union Shown(channel') \union dropped' \union early'
                      \/ Len(s) = Limit
  <2>1. recorded' \subseteq Executions
    BY DEF PageTypeOK, Execute, RecordRow, Tell, pageVars
  <2> QED
    BY <2>1 DEF Complete
<1>1. ASSUME NEW f \in Executions, Execute(f) \/ RecordRow(f)
      PROVE  e \in Shown(s) \union Shown(channel') \union dropped' \union early'
               \/ Len(s) = Limit
  <2>1. f # e /\ at[e] = "done"
    <3>1. /\ \E st \in {"record", "broadcast"} : at' = [at EXCEPT ![f] = st]
      BY <1>1, AfterSteps DEF Execute, RecordRow
    <3> QED
      BY <3>1 DEF PageTypeOK
  <2>2. e \in recorded /\ UNCHANGED <<channel, dropped, early>>
    BY <1>1, <2>1 DEF Execute, RecordRow
  <2> QED
    BY <2>1, <2>2 DEF Complete
<1>2. ASSUME NEW f \in Executions, Tell(f)
      PROVE  e \in Shown(s) \union Shown(channel') \union dropped' \union early'
               \/ Len(s) = Limit
  <2>1. /\ \A g \in Executions \ {f} : at'[g] = at[g]
        /\ UNCHANGED early
        /\ \/ Shown(channel') = Shown(channel) \union {f} /\ dropped' = dropped
           \/ channel' = channel /\ dropped' = dropped \union {f}
    BY <1>2, TellSends DEF OnItsWay
  <2>2. e \in recorded
    BY <1>2 DEF Tell
  <2> QED
    BY <2>1, <2>2 DEF Complete
<1>3. CASE UNCHANGED pageVars
  BY <1>3 DEF Complete, pageVars
<1> QED
  BY <1>1, <1>2, <1>3

LEMMA SnapshotKept ==
  ASSUME PageTypeOK, IsFiniteSet(recorded), OnItsWay, SnapshotComplete, [PageNext]_pageVars
  PROVE  SnapshotComplete'
<1> USE DEF page, history
<1> SUFFICES ASSUME fetch' = "answered", answer' \notin NotLists
             PROVE  Injective(answer') /\ (covered' => Complete(answer)')
  BY DEF SnapshotComplete
<1>1. CASE Query
  <2>1. answer' \in Latest(recorded)
    BY <1>1 DEF Query, NotLists
  <2>2. Injective(answer') /\ (Len(answer') = Limit \/ Shown(answer') = recorded)
    BY <2>1, LatestShown DEF PageTypeOK
  <2>3. recorded' = recorded
    BY <1>1 DEF Query
  <2> QED
    BY <2>2, <2>3 DEF Complete
<1>2. CASE QueryFails \/ Apply \/ FetchFails \/ Reload
  BY <1>2 DEF QueryFails, Apply, FetchFails, Reload, NotLists
<1>3. CASE Connect \/ Break
  BY <1>3 DEF Connect, Break, SnapshotComplete
<1>4. CASE \/ \E e \in Executions : Execute(e) \/ RecordRow(e) \/ Tell(e)
           \/ UNCHANGED pageVars
  <2>1. UNCHANGED <<fetch, answer, covered>>
    BY <1>4 DEF Execute, RecordRow, Tell, pageVars
  <2>2. ASSUME covered
        PROVE  Complete(answer)'
    <3>1. PICK s : s = answer
      OBVIOUS
    <3>2. Complete(s)
      BY <2>1, <2>2, <3>1 DEF SnapshotComplete
    <3>3. Complete(s)'
      BY <1>4, <2>2, <3>2, StillComplete
    <3> QED
      BY <2>1, <3>1, <3>3
  <2> QED
    BY <2>1, <2>2 DEF SnapshotComplete
<1>5. CASE Receive
  <2>1. PICK c \in Executions :
          /\ Shown(channel) = Shown(channel') \union {c}
          /\ early' = IF fetch = "over" THEN early ELSE early \union {c}
          /\ UNCHANGED <<recorded, at, stream, fetch, answer, covered, dropped>>
    BY <1>5, ReceiveTakes
  <2>2. early' = early \union {c}
    BY <2>1
  <2> QED
    BY <2>1, <2>2 DEF SnapshotComplete, Complete
<1> QED
  BY <1>1, <1>2, <1>3, <1>4, <1>5 DEF PageNext

LEMMA PageCompleteKept ==
  ASSUME PageTypeOK, OnItsWay, SnapshotComplete, PageComplete, [PageNext]_pageVars
  PROVE  PageComplete'
<1> USE DEF page, history
<1> SUFFICES ASSUME fetch' = "over", list' \notin NotLists, covered'
             PROVE  Complete(list)'
  BY DEF PageComplete
<1>1. CASE Apply
  <2>1. /\ fetch = "answered" /\ list' = answer
        /\ UNCHANGED <<recorded, at, channel, covered, dropped, early>>
    BY <1>1 DEF Apply
  <2> QED
    BY <2>1 DEF SnapshotComplete, Complete
<1>2. CASE Query \/ QueryFails \/ FetchFails \/ Reload \/ Break \/ Connect
  BY <1>2 DEF Query, QueryFails, FetchFails, Reload, Break, Connect
<1>3. CASE \/ \E e \in Executions : Execute(e) \/ RecordRow(e) \/ Tell(e)
           \/ UNCHANGED pageVars
  <2>1. UNCHANGED <<fetch, list, covered>>
    BY <1>3 DEF Execute, RecordRow, Tell, pageVars
  <2>2. PICK s : s = list
    OBVIOUS
  <2>3. Complete(s) /\ covered
    BY <2>1, <2>2 DEF PageComplete
  <2>4. Complete(s)'
    BY <1>3, <2>3, StillComplete
  <2> QED
    BY <2>1, <2>2, <2>4
<1>4. CASE Receive
  <2>1. PICK c \in Executions :
          /\ Shown(channel) = Shown(channel') \union {c}
          /\ IF list \in NotLists THEN list' = list ELSE list' = Top(<<c>> \o list)
          /\ early' = IF fetch = "over" THEN early ELSE early \union {c}
          /\ UNCHANGED <<recorded, at, stream, fetch, answer, covered, dropped>>
    BY <1>4, ReceiveTakes
  <2>2. list \in Lists /\ list' = Top(<<c>> \o list) /\ early' = early
    BY <2>1 DEF PageTypeOK
  <2>3. Complete(list)
    BY <2>1, <2>2 DEF PageComplete
  <2>4. /\ Len(list') = Limit \/ Shown(list') = Shown(list) \union {c}
        /\ Len(list) = Limit => Len(list') = Limit
    BY <2>2, TopShown
  <2> QED
    BY <2>1, <2>2, <2>3, <2>4 DEF Complete
<1> QED
  BY <1>1, <1>2, <1>3, <1>4 DEF PageNext

-----------------------------------------------------------------------------

LEMMA CountedKept ==
  ASSUME PageTypeOK, OnItsWay, SnapshotComplete,
         list \notin NotLists => \A e \in Executions : Counted(e),
         [PageNext]_pageVars
  PROVE  list' \notin NotLists => \A e \in Executions : Counted(e)'
<1> USE DEF page, history
<1> SUFFICES ASSUME list' \notin NotLists, NEW e \in Executions
             PROVE  Counted(e)'
  OBVIOUS
<1>1. ASSUME UNCHANGED <<fetch, list, answer>> \/ (Query \/ QueryFails \/ FetchFails),
             Pending(e)' => Pending(e)
      PROVE  Counted(e)'
  <2>1. UNCHANGED list /\ (fetch = "over" => UNCHANGED <<fetch, answer>>)
    BY <1>1 DEF Query, QueryFails, FetchFails
  <2>2. Counted(e)
    BY <2>1
  <2>3. CASE Once(list, e) /\ (e \in Shown(list) => ~Pending(e))
    BY <1>1, <2>1, <2>3 DEF Counted
  <2>4. CASE fetch = "over" /\ Once(list, e) /\ (Pending(e) => e \in Shown(answer))
    BY <1>1, <2>1, <2>4 DEF Counted
  <2>5. CASE /\ fetch = "over" /\ AtMostTwice(list, e)
             /\ e \in Shown(answer) /\ ~Pending(e)
    BY <1>1, <2>1, <2>5 DEF Counted
  <2> QED
    BY <2>2, <2>3, <2>4, <2>5 DEF Counted
<1>2. CASE ~(\E f \in Executions : Tell(f)) /\ ~Receive /\ ~Reload /\ ~Apply
  <2>1. /\ channel' = channel \/ channel' = <<>>
        /\ at[e] = "done" <=> at'[e] = "done"
    BY <1>2, QuietStep
  <2>2. Pending(e)' => Pending(e)
    BY <2>1, EmptyList DEF Pending
  <2>3. UNCHANGED <<fetch, list, answer>> \/ (Query \/ QueryFails \/ FetchFails)
    BY <1>2 DEF PageNext, Execute, RecordRow, Connect, Break, pageVars
  <2> QED
    BY <1>1, <2>2, <2>3
<1>3. ASSUME NEW f \in Executions, Tell(f)
      PROVE  Counted(e)'
  <2>1. UNCHANGED <<fetch, list, answer>>
    BY <1>3 DEF Tell
  <2>2. /\ at[f] = "broadcast" /\ \A g \in Executions \ {f} : at'[g] = at[g]
        /\ Shown(channel') \subseteq Shown(channel) \union {f}
    BY <1>3, TellSends
  <2>3. Pending(e)' => Pending(e)
    BY <2>2 DEF Pending
  <2> QED
    BY <1>1, <2>1, <2>3
<1>4. CASE Reload
  <2>1. list' = <<>>
    BY <1>4 DEF Reload
  <2>2. Once(list', e) /\ e \notin Shown(list')
    BY <2>1, EmptyList DEF Once, Shown
  <2> QED
    BY <2>2 DEF Counted
<1>5. CASE Apply
  <2>1. /\ fetch = "answered" /\ fetch' = "over" /\ list' = answer
        /\ UNCHANGED <<at, channel, answer>>
    BY <1>5 DEF Apply
  <2>2. Once(list', e)
    BY <2>1 DEF SnapshotComplete, Injective, Once
  <2>3. e \in Shown(list') => e \in Shown(answer')
    BY <2>1
  <2> QED
    BY <2>1, <2>2, <2>3 DEF Counted
<1>6. CASE Receive
  <2>1. PICK c \in Executions :
          /\ c \in Shown(channel) /\ c \notin Shown(channel')
          /\ Shown(channel) = Shown(channel') \union {c}
          /\ IF list \in NotLists THEN list' = list ELSE list' = Top(<<c>> \o list)
          /\ UNCHANGED <<at, fetch, answer>>
    BY <1>6, ReceiveTakes
  <2>2. list \in Lists /\ list \notin NotLists /\ list' = Top(<<c>> \o list)
    BY <2>1 DEF PageTypeOK
  <2>3. Counted(e)
    BY <2>2
  <2>4. Shown(list') \subseteq Shown(list) \union {c}
    BY <2>2, TopShown
  <2>5. CASE e = c
    <3>1. Pending(e) /\ at[e] = "done" /\ ~Pending(e)'
      BY <2>1, <2>5 DEF Pending, OnItsWay
    <3>2. CASE Once(list, e) /\ e \notin Shown(list)
      <4>1. Once(list', e)
        BY <2>2, <3>2, TopOnce
      <4> QED
        BY <3>1, <4>1 DEF Counted
    <3>3. CASE fetch = "over" /\ Once(list, e) /\ e \in Shown(answer)
      <4>1. AtMostTwice(list', e)
        BY <2>2, <3>3, TopOnce
      <4> QED
        BY <2>1, <3>1, <3>3, <4>1 DEF Counted
    <3> QED
      BY <2>3, <3>1, <3>2, <3>3 DEF Counted
  <2>6. CASE e # c
    <3>1. Pending(e)' <=> Pending(e)
      BY <2>1, <2>6 DEF Pending
    <3>2. e \in Shown(list') => e \in Shown(list)
      BY <2>4, <2>6
    <3>3. Once(list, e) => Once(list', e)
      BY <2>2, <2>6, TopOnce
    <3>4. AtMostTwice(list, e) => AtMostTwice(list', e)
      BY <2>2, <2>6, TopTwice
    <3>5. CASE Once(list, e) /\ (e \in Shown(list) => ~Pending(e))
      BY <3>1, <3>2, <3>3, <3>5 DEF Counted
    <3>6. CASE fetch = "over" /\ Once(list, e) /\ (Pending(e) => e \in Shown(answer))
      BY <2>1, <3>1, <3>3, <3>6 DEF Counted
    <3>7. CASE /\ fetch = "over" /\ AtMostTwice(list, e)
               /\ e \in Shown(answer) /\ ~Pending(e)
      BY <2>1, <3>1, <3>4, <3>7 DEF Counted
    <3> QED
      BY <2>3, <3>5, <3>6, <3>7 DEF Counted
  <2> QED
    BY <2>5, <2>6
<1> QED
  BY <1>2, <1>3, <1>4, <1>5, <1>6

LEMMA PageInvHolds == PageSpec => []PageInv
<1>1. PageInit => PageInv
  <2> SUFFICES ASSUME PageInit
               PROVE  PageInv
    OBVIOUS
  <2>1. PageTypeOK
    <3>1. <<>> \in Seq(Executions) /\ Len(<<>>) = 0 /\ 0 <= Capacity
      BY SizesAssumption
    <3> QED
      BY <3>1, EmptyList DEF PageInit, PageTypeOK
  <2>2. IsFiniteSet(recorded)
    BY FS_EmptySet DEF PageInit
  <2>3. OnItsWay
    BY EmptyList DEF PageInit, OnItsWay
  <2>4. SnapshotComplete /\ PageComplete
    BY DEF PageInit, SnapshotComplete, PageComplete
  <2>5. \A e \in Executions : Counted(e)
    <3>1. list = <<>>
      BY DEF PageInit
    <3>2. \A e \in Executions : Once(list, e) /\ e \notin Shown(list)
      BY <3>1, EmptyList DEF Once, Shown
    <3> QED
      BY <3>2 DEF Counted
  <2> QED
    BY <2>1, <2>2, <2>3, <2>4, <2>5 DEF PageInv
<1>2. PageInv /\ [PageNext]_pageVars => PageInv'
  BY PageTyped, OnItsWayKept, SnapshotKept, PageCompleteKept, CountedKept
  DEF PageInv, OnItsWay
<1> QED
  BY <1>1, <1>2, PTL DEF PageSpec

(* The page's state is well-typed: what it lists and what it has fetched   *)
(* are lists within the limit, null or an error, and the channel is within *)
(* its capacity.                                                           *)
THEOREM PageTypeCorrect == PageSpec => []PageTypeOK
<1>1. PageInv => PageTypeOK
  BY DEF PageInv
<1> QED
  BY <1>1, PageInvHolds, PTL

(* The page misses nothing without a reason, nor shows it too often, with  *)
(* any number of executions, any channel and a list of any length.         *)
THEOREM ListShowsHistoryHolds == PageSpec => []ListShowsHistory
<1>1. PageInv => ListShowsHistory
  <2> SUFFICES ASSUME PageInv, list \notin NotLists
               PROVE  ListShowsHistory
    BY DEF ListShowsHistory
  <2>1. fetch = "over" /\ covered /\ ~crashed =>
          \A e \in recorded : at[e] = "done" =>
            e \in Shown(list) \union Shown(channel) \union dropped \union early
              \/ Len(list) = Limit
    BY DEF PageInv, PageComplete, Complete
  <2>2. ASSUME NEW e \in Executions
        PROVE  /\ Cardinality({i \in DOMAIN list : list[i] = e}) <= 2
               /\ Twice(e) => fetch = "over" /\ e \in Shown(answer)
    <3>1. list \in Seq(Executions) /\ Counted(e)
      BY ListType DEF PageInv, PageTypeOK
    <3>2. CASE Once(list, e)
      BY <3>1, <3>2, OnceCount DEF Twice
    <3>3. CASE fetch = "over" /\ AtMostTwice(list, e) /\ e \in Shown(answer)
      BY <3>1, <3>3, TwiceCount DEF Twice
    <3> QED
      BY <3>1, <3>2, <3>3 DEF Counted
  <2> QED
    BY <2>1, <2>2 DEF ListShowsHistory
<1> QED
  BY <1>1, PageInvHolds, PTL

-----------------------------------------------------------------------------
(* The simulator.                                                          *)

(* Where a scenario is in its operation, and what it has in hand there.    *)
Playing(p) ==
  /\ step[p] # "get" => next[p] <= Len(Script[p])
  /\ step[p] \notin {"get", "camera"} => cam[p] \in Scenarios
  /\ step[p] \in {"delete", "exit"} => left[p] > 0
  /\ hand[p] # Nothing <=> step[p] \in {"crossed", "delete", "exit"}
  /\ step[p] \in {"crossed", "delete"} => hand[p] \in entities[Region(p)]
  /\ step[p] = "exit" => hand[p] \notin entities[Region(p)]

Owns(p, roi) == \E i \in DOMAIN Script[p] : Script[p][i].roi = roi

Empty(c) == \A roi \in Rois : entities[<<c, roi>>] = {}

(* A camera is new when it is put into w.Cameras: nobody has used it.      *)
Fresh ==
  /\ camera = Nothing => \A p \in Scenarios : cam[p] = Nothing /\ Empty(p)
  /\ \A q \in Scenarios : step[q] = "camera" =>
       camera # q /\ Empty(q) /\ \A p \in Scenarios : cam[p] # q

(* While a scenario works in another camera than the one in w.Cameras,     *)
(* there is nothing of its own in that one.                                *)
Unused ==
  \A p \in Scenarios, roi \in Rois :
    camera \in Scenarios /\ cam[p] # camera /\ Owns(p, roi) => entities[<<camera, roi>>] = {}

(* The events about an entity agree with the world, or somebody is about to*)
(* send the one that is missing.                                           *)
Unsent(roi, id) ==
  \E p \in Scenarios : hand[p] = id /\ Op(p).roi = roi /\ step[p] \in {"crossed", "exit"}

Somewhere(roi, id) == id \in gone[roi] \/ \E c \in Scenarios : id \in entities[<<c, roi>>]

Told(roi, id) ==
  Unsent(roi, id) \/
    /\ camera \in Scenarios /\ id \in entities[<<camera, roi>>] => Crossed(fired[roi], id)
    /\ Crossed(fired[roi], id) => Somewhere(roi, id)

Reported ==
  \A r \in reported :
    asked[r] = "done" /\ (stored[r] = "new" \/ (stored[r] = "none" /\ late[r] = "served"))

SimulatorInv ==
  /\ SimulatorTypeOK
  /\ \A p \in Scenarios : Playing(p)
  /\ Fresh
  /\ Unused
  /\ \A roi \in Rois, id \in Ids : Told(roi, id)
  /\ Reported

LEMMA OperationType ==
  ASSUME NEW o \in Operation
  PROVE  /\ o.roi \in Rois /\ o.do \in {"spawn", "staff", "despawn"}
         /\ o.do = "despawn" => o.count \in Nat
  BY DEF Operation

LEMMA OpOf ==
  ASSUME SimulatorTypeOK, NEW p \in Scenarios, next[p] <= Len(Script[p])
  PROVE  /\ Op(p).roi \in Rois /\ Op(p).do \in {"spawn", "staff", "despawn"}
         /\ Op(p).do = "despawn" => Op(p).count \in Nat
<1>1. Script[p] \in Seq(Operation) /\ next[p] \in 1..Len(Script[p])
  BY ScriptAssumption DEF SimulatorTypeOK
<1>2. Script[p][next[p]] \in Operation
  BY <1>1
<1> QED
  BY <1>2, OperationType DEF Op

LEMMA OwnsOp ==
  ASSUME SimulatorTypeOK, NEW p \in Scenarios, next[p] <= Len(Script[p])
  PROVE  Owns(p, Op(p).roi)
<1>1. Script[p] \in Seq(Operation) /\ next[p] \in DOMAIN Script[p]
  BY ScriptAssumption DEF SimulatorTypeOK
<1> QED
  BY <1>1 DEF Op, Owns

LEMMA OneOwner ==
  ASSUME NEW p \in Scenarios, NEW q \in Scenarios, NEW roi \in Rois, Owns(p, roi), Owns(q, roi)
  PROVE  p = q
<1>1. PICK i \in DOMAIN Script[p], j \in DOMAIN Script[q] :
         Script[p][i].roi = roi /\ Script[q][j].roi = roi
  BY DEF Owns
<1> QED
  BY <1>1, OwnersAssumption

LEMMA OwnerOf ==
  ASSUME SimulatorTypeOK, NEW p \in Scenarios, NEW q \in Scenarios,
         next[p] <= Len(Script[p]), next[q] <= Len(Script[q]), Op(p).roi = Op(q).roi
  PROVE  p = q
<1>1. Owns(p, Op(p).roi) /\ Owns(q, Op(p).roi) /\ Op(p).roi \in Rois
  BY OwnsOp, OpOf
<1> QED
  BY <1>1, OneOwner

(* The region a scenario is in.                                            *)
LEMMA RegionOf ==
  ASSUME SimulatorTypeOK, NEW p \in Scenarios, next[p] <= Len(Script[p]), cam[p] \in Scenarios
  PROVE  /\ Region(p) \in Scenarios \X Rois /\ Region(p) \in Maps
         /\ \A c, roi : <<c, roi>> = Region(p) <=> c = cam[p] /\ roi = Op(p).roi
<1>1. Op(p).roi \in Rois
  BY OpOf
<1> QED
  BY <1>1 DEF Region, Maps

(* No two of them are in the same one.                                     *)
LEMMA RegionsApart ==
  ASSUME SimulatorTypeOK, \A r \in Scenarios : Playing(r), NEW p \in Scenarios,
         NEW q \in Scenarios \ {p}, step[p] \notin {"get", "camera"},
         step[q] \notin {"get", "camera"}
  PROVE  /\ Region(p) # Region(q) /\ Region(p) \in Scenarios \X Rois
         /\ Region(q) \in Scenarios \X Rois
<1>1. /\ next[p] <= Len(Script[p]) /\ cam[p] \in Scenarios
      /\ next[q] <= Len(Script[q]) /\ cam[q] \in Scenarios
  BY DEF Playing
<1>2. Op(p).roi # Op(q).roi
  BY <1>1, OwnerOf
<1>3. Region(p) \in Scenarios \X Rois /\ Region(q) \in Scenarios \X Rois
  BY <1>1, RegionOf
<1>4. Region(q) = Region(p) <=> cam[q] = cam[p] /\ Op(q).roi = Op(p).roi
  BY <1>1, RegionOf DEF Region
<1> QED
  BY <1>2, <1>3, <1>4

(* One more event is the last about its entity, and not about any other.   *)
LEMMA CrossedNow ==
  ASSUME NEW events \in Seq(Events), NEW kind \in {"line_crossed", "exit"},
         NEW e \in Ids, NEW id \in Ids
  PROVE  Crossed(Append(events, <<kind, e>>), id) <=>
           IF id = e THEN kind = "line_crossed" ELSE Crossed(events, id)
<1> DEFINE now == Append(events, <<kind, e>>)
<1>1. PICK n \in Nat : n = Len(events)
  OBVIOUS
<1>2. /\ now[n + 1] = <<kind, e>> /\ \A i \in 1..n : now[i] = events[i]
      /\ DOMAIN now = 1..(n + 1) /\ DOMAIN events = 1..n
  BY <1>1, AppendProperties DEF Events
<1>3. now[n + 1][2] = e
  BY <1>2
<1> HIDE DEF now
<1>4. CASE id = e
  <2>1. ASSUME NEW i \in DOMAIN now, now[i] = <<"line_crossed", id>>,
               \A j \in DOMAIN now : j > i => now[j][2] # id
        PROVE  kind = "line_crossed"
    <3>1. i = n + 1
      BY <1>2, <1>3, <1>4, <2>1
    <3> QED
      BY <1>2, <2>1, <3>1
  <2>2. ASSUME kind = "line_crossed"
        PROVE  Crossed(now, id)
    <3>1. n + 1 \in DOMAIN now /\ \A j \in DOMAIN now : ~(j > n + 1)
      BY <1>2
    <3> QED
      BY <1>2, <1>4, <2>2, <3>1 DEF Crossed
  <2> QED
    BY <1>4, <2>1, <2>2 DEF Crossed, now
<1>5. CASE id # e
  <2>1. ASSUME NEW i \in DOMAIN now, now[i] = <<"line_crossed", id>>,
               \A j \in DOMAIN now : j > i => now[j][2] # id
        PROVE  Crossed(events, id)
    <3>1. i # n + 1
      BY <1>2, <1>5, <2>1
    <3>2. i \in 1..n
      BY <1>2, <3>1
    <3>3. events[i] = <<"line_crossed", id>>
      BY <1>2, <2>1, <3>2
    <3>4. \A j \in 1..n : j > i => events[j][2] # id
      BY <1>2, <2>1
    <3> QED
      BY <1>2, <3>2, <3>3, <3>4 DEF Crossed
  <2>2. ASSUME NEW i \in DOMAIN events, events[i] = <<"line_crossed", id>>,
               \A j \in DOMAIN events : j > i => events[j][2] # id
        PROVE  Crossed(now, id)
    <3>1. i \in DOMAIN now /\ now[i] = <<"line_crossed", id>>
      BY <1>2, <2>2
    <3>2. ASSUME NEW j \in DOMAIN now, j > i
          PROVE  now[j][2] # id
      <4>1. CASE j = n + 1
        BY <1>3, <1>5, <4>1
      <4>2. CASE j \in 1..n
        BY <1>2, <2>2, <3>2, <4>2
      <4> QED
        BY <1>2, <4>1, <4>2
    <3> QED
      BY <3>1, <3>2 DEF Crossed
  <2> QED
    BY <1>5, <2>1, <2>2 DEF Crossed, now
<1> QED
  BY <1>4, <1>5


LEMMA EventAppended ==
  ASSUME NEW events \in Seq(Events), NEW kind \in {"line_crossed", "exit"}, NEW e \in Ids
  PROVE  Append(events, <<kind, e>>) \in Seq(Events)
  BY AppendProperties DEF Events

LEMMA MapsOfAll == <<>> \in Maps /\ \A c \in Scenarios : <<c>> \in Maps
  BY DEF Maps

LEMMA TickType ==
  ASSUME SimulatorTypeOK, Tick
  PROVE  /\ tick' \in [at : {"idle", "cameras", "regions", "entities"},
                       cam : Scenarios \union {Nothing}, seen : SUBSET Rois,
                       roi : Rois \union {Nothing}, listed : SUBSET Ids]
         /\ tick'.at \in {"regions", "entities"} => tick'.cam \in Scenarios
         /\ tick'.at = "entities" => tick'.roi \in Rois
<1> DEFINE Ticks == [at : {"idle", "cameras", "regions", "entities"},
                     cam : Scenarios \union {Nothing}, seen : SUBSET Rois,
                     roi : Rois \union {Nothing}, listed : SUBSET Ids]
<1>0. Idle \in Ticks /\ tick \in Ticks
  BY DEF Idle, SimulatorTypeOK
<1>1. CASE tick' = [Idle EXCEPT !.at = "cameras"] \/ tick' = Idle
  BY <1>1 DEF Idle
<1>2. CASE camera # Nothing /\ tick' = [Idle EXCEPT !.at = "regions", !.cam = camera]
  BY <1>2 DEF Idle, SimulatorTypeOK
<1>3. CASE /\ tick.at = "regions"
           /\ \E r \in rois[tick.cam] \ tick.seen :
                tick' = [tick EXCEPT !.at = "entities", !.seen = @ \union {r}, !.roi = r]
  <2>1. PICK r \in rois[tick.cam] :
          tick' = [tick EXCEPT !.at = "entities", !.seen = @ \union {r}, !.roi = r]
    BY <1>3
  <2>2. r \in Rois /\ tick.cam \in Scenarios
    BY <1>3, <2>1 DEF SimulatorTypeOK
  <2> QED
    BY <1>0, <2>1, <2>2
<1>4. CASE tick.at = "regions" /\ tick' = [Idle EXCEPT !.at = "cameras", !.cam = tick.cam]
  BY <1>4 DEF Idle, SimulatorTypeOK
<1>5. CASE /\ tick.at = "entities"
           /\ \E id \in entities[<<tick.cam, tick.roi>>] \ tick.listed :
                tick' = [tick EXCEPT !.listed = @ \union {id}]
  <2>1. PICK id \in entities[<<tick.cam, tick.roi>>] :
          tick' = [tick EXCEPT !.listed = @ \union {id}]
    BY <1>5
  <2>2. tick.cam \in Scenarios /\ tick.roi \in Rois
    BY <1>5 DEF SimulatorTypeOK
  <2>3. entities[<<tick.cam, tick.roi>>] \subseteq Ids
    BY <2>2 DEF SimulatorTypeOK
  <2> QED
    BY <1>0, <1>5, <2>1, <2>2, <2>3
<1>6. CASE tick.at = "entities"
             /\ tick' = [tick EXCEPT !.at = "regions", !.roi = Nothing, !.listed = {}]
  BY <1>6 DEF SimulatorTypeOK
<1> QED
  BY <1>1, <1>2, <1>3, <1>4, <1>5, <1>6 DEF Tick

LEMMA SimulatorTyped ==
  ASSUME SimulatorTypeOK, \A p \in Scenarios : Playing(p), [SimulatorNext]_simulatorVars
  PROVE  SimulatorTypeOK'
<1> USE DEF provisioning, world
<1>1. ASSUME NEW r \in Rules, ProvisionDelete(r) \/ LateDelete(r) \/ ProvisionPost(r)
      PROVE  SimulatorTypeOK'
  <2>1. /\ stored' \in [Rules -> {"none", "old", "new"}]
        /\ asked' \in [Rules -> {"delete", "post", "done"}]
        /\ late' \in [Rules -> {"no", "due", "served"}]
        /\ reported' \subseteq Rules
    BY <1>1 DEF SimulatorTypeOK, ProvisionDelete, LateDelete, ProvisionPost
  <2> QED
    BY <1>1, <2>1 DEF SimulatorTypeOK, ProvisionDelete, LateDelete, ProvisionPost
<1>2. ASSUME NEW p \in Scenarios, NEW s, At(p, s)
      PROVE  /\ step[p] = s /\ next[p] <= Len(Script[p])
             /\ Op(p).roi \in Rois /\ Op(p).do \in {"spawn", "staff", "despawn"}
             /\ Op(p).do = "despawn" => Op(p).count \in Nat
             /\ next[p] + 1 \in Nat \ {0}
             /\ s \notin {"get", "camera"} =>
                  cam[p] \in Scenarios /\ Region(p) \in Scenarios \X Rois /\ Region(p) \in Maps
  <2>1. next[p] <= Len(Script[p]) /\ step[p] = s
    BY <1>2 DEF At
  <2>2. s \notin {"get", "camera"} => cam[p] \in Scenarios
    BY <2>1 DEF Playing
  <2> QED
    BY <2>1, <2>2, OpOf, RegionOf DEF SimulatorTypeOK
<1>3. ASSUME NEW p \in Scenarios, Act(p), At(p, "region") \/ At(p, "create")
      PROVE  /\ step' \in [Scenarios -> {"get", "camera", "region", "create", "write", "insert",
                                         "crossed", "iterate", "delete", "exit"}]
             /\ next' \in [Scenarios -> Nat \ {0}] /\ left' \in [Scenarios -> Nat]
  <2>1. /\ Op(p).do \in {"spawn", "staff", "despawn"} /\ next[p] + 1 \in Nat \ {0}
        /\ Op(p).do = "despawn" => Op(p).count \in Nat
    BY <1>2, <1>3
  <2>2. CASE Op(p).do = "spawn"
    BY <1>3, <2>2 DEF Act, Continue, SimulatorTypeOK
  <2>3. CASE Op(p).do = "despawn"
    BY <1>3, <2>1, <2>3 DEF Act, Continue, SimulatorTypeOK
  <2>4. CASE Op(p).do = "staff"
    <3>1. /\ step' = [step EXCEPT ![p] = "get"]
          /\ next' = [next EXCEPT ![p] = @ + 1] /\ left' = left
      BY <1>3, <2>4 DEF Act
    <3> QED
      BY <2>1, <3>1 DEF SimulatorTypeOK
  <2> QED
    BY <2>1, <2>2, <2>3, <2>4
<1>4. ASSUME NEW p \in Scenarios, FindCamera(p) \/ MissCamera(p) \/ CreateCamera(p)
      PROVE  SimulatorTypeOK'
  <2>1. CASE FindCamera(p)
    BY <2>1 DEF FindCamera, Continue, SimulatorTypeOK
  <2>2. CASE MissCamera(p)
    BY <2>2, MapsOfAll DEF MissCamera, BeginWrite, Continue, SimulatorTypeOK
  <2>3. CASE CreateCamera(p)
    BY <2>3, MapsOfAll DEF CreateCamera, EndWrite, Continue, SimulatorTypeOK
  <2> QED
    BY <1>4, <2>1, <2>2, <2>3
<1>5. ASSUME NEW p \in Scenarios, GetKnown(p)
      PROVE  SimulatorTypeOK'
  BY <1>3, <1>5 DEF GetKnown, SimulatorTypeOK
<1>6. ASSUME NEW p \in Scenarios, GetNew(p)
      PROVE  SimulatorTypeOK'
  <2>1. cam[p] \in Scenarios
    BY <1>2, <1>6 DEF GetNew
  <2> QED
    BY <1>6, <2>1, MapsOfAll DEF GetNew, BeginWrite, Continue, SimulatorTypeOK
<1>7. ASSUME NEW p \in Scenarios, Create(p)
      PROVE  SimulatorTypeOK'
  <2>1. Op(p).roi \in Rois /\ cam[p] \in Scenarios /\ Region(p) \in Scenarios \X Rois
    BY <1>2, <1>7 DEF Create
  <2>2. rois' \in [Scenarios -> SUBSET Rois]
    <3>1. rois \in [Scenarios -> SUBSET Rois] /\ rois[cam[p]] \union {Op(p).roi} \in SUBSET Rois
      BY <2>1 DEF SimulatorTypeOK
    <3>2. \/ rois' = [rois EXCEPT ![cam[p]] = rois[cam[p]] \union {Op(p).roi}]
          \/ rois' = rois
      BY <1>7 DEF Create
    <3> QED
      BY <3>1, <3>2
  <2>4. gone' \in [Rois -> SUBSET Ids]
    <3>1. gone[Op(p).roi] \union entities[Region(p)] \in SUBSET Ids
      BY <2>1 DEF SimulatorTypeOK
    <3>2. gone' = [gone EXCEPT ![Op(p).roi] = gone[Op(p).roi] \union entities[Region(p)]]
      BY <1>7 DEF Create
    <3> QED
      BY <2>1, <3>1, <3>2 DEF SimulatorTypeOK
  <2>3. entities' \in [Scenarios \X Rois -> SUBSET Ids]
    BY <1>7 DEF Create, SimulatorTypeOK
  <2> QED
    BY <1>3, <1>7, <2>1, <2>2, <2>3, <2>4, MapsOfAll DEF Create, EndWrite, SimulatorTypeOK
<1>8. ASSUME NEW p \in Scenarios, BeginInsert(p)
      PROVE  SimulatorTypeOK'
  <2>1. Region(p) \in Maps
    BY <1>2, <1>8 DEF BeginInsert
  <2> QED
    BY <1>8, <2>1 DEF BeginInsert, BeginWrite, Continue, SimulatorTypeOK
<1>9. ASSUME NEW p \in Scenarios, Insert(p)
      PROVE  SimulatorTypeOK'
  <2>1. PICK id \in Ids : /\ entities' = [entities EXCEPT ![Region(p)] = @ \union {id}]
                          /\ hand' = [hand EXCEPT ![p] = id]
    BY <1>9 DEF Insert
  <2>2. Region(p) \in Scenarios \X Rois
    BY <1>2, <1>9 DEF Insert
  <2>3. /\ entities' \in [Scenarios \X Rois -> SUBSET Ids]
        /\ hand' \in [Scenarios -> Ids \union {Nothing}]
    BY <2>1, <2>2 DEF SimulatorTypeOK
  <2> QED
    BY <1>9, <2>3 DEF Insert, EndWrite, Continue, SimulatorTypeOK
<1>10. ASSUME NEW p \in Scenarios, FireCrossed(p)
       PROVE  SimulatorTypeOK'
  <2>1. Op(p).roi \in Rois /\ hand[p] \in Ids /\ next[p] + 1 \in Nat \ {0}
    BY <1>2, <1>10 DEF FireCrossed, At, Playing, SimulatorTypeOK
  <2>2. Append(fired[Op(p).roi], <<"line_crossed", hand[p]>>) \in Seq(Events)
    BY <2>1, EventAppended DEF SimulatorTypeOK
  <2> QED
    BY <1>10, <2>1, <2>2 DEF FireCrossed, EndOfOp, SimulatorTypeOK
<1>11. ASSUME NEW p \in Scenarios, BeginDelete(p)
       PROVE  SimulatorTypeOK'
  <2>1. Region(p) \in Scenarios \X Rois /\ Region(p) \in Maps
    BY <1>2, <1>11 DEF BeginDelete
  <2>2. PICK id \in entities[Region(p)] : hand' = [hand EXCEPT ![p] = id]
    BY <1>11 DEF BeginDelete
  <2>3. id \in Ids
    BY <2>1, <2>2 DEF SimulatorTypeOK
  <2> QED
    BY <1>11, <2>1, <2>2, <2>3 DEF BeginDelete, BeginWrite, Continue, SimulatorTypeOK
<1>12. ASSUME NEW p \in Scenarios, Delete(p)
       PROVE  SimulatorTypeOK'
  <2>1. entities' \in [Scenarios \X Rois -> SUBSET Ids]
    BY <1>12 DEF Delete, SimulatorTypeOK
  <2> QED
    BY <1>12, <2>1 DEF Delete, EndWrite, Continue, SimulatorTypeOK
<1>13. ASSUME NEW p \in Scenarios, FireExit(p)
       PROVE  SimulatorTypeOK'
  <2>1. Op(p).roi \in Rois /\ hand[p] \in Ids /\ left[p] - 1 \in Nat
    BY <1>2, <1>13 DEF FireExit, At, Playing, SimulatorTypeOK
  <2>2. Append(fired[Op(p).roi], <<"exit", hand[p]>>) \in Seq(Events)
    BY <2>1, EventAppended DEF SimulatorTypeOK
  <2> QED
    BY <1>13, <2>1, <2>2 DEF FireExit, Continue, SimulatorTypeOK
<1>14. ASSUME NEW p \in Scenarios, EndDespawn(p)
       PROVE  SimulatorTypeOK'
  <2>1. next[p] + 1 \in Nat \ {0}
    BY <1>2, <1>14 DEF EndDespawn
  <2> QED
    BY <1>14, <2>1 DEF EndDespawn, EndOfOp, SimulatorTypeOK
<1>15. CASE Tick
  BY <1>15, TickType DEF Tick, SimulatorTypeOK
<1>16. CASE Throw \/ UNCHANGED simulatorVars
  BY <1>16 DEF Throw, simulatorVars, SimulatorTypeOK
<1> QED
  BY <1>1, <1>4, <1>5, <1>6, <1>7, <1>8, <1>9, <1>10, <1>11, <1>12, <1>13, <1>14, <1>15, <1>16
  DEF SimulatorNext


(* Who does not move plays on, as long as nobody interferes in its region. *)
LEMMA PlaysOn ==
  ASSUME NEW q \in Scenarios, Playing(q),
         step'[q] = step[q], next'[q] = next[q], left'[q] = left[q], hand'[q] = hand[q],
         cam'[q] = cam[q],
         step[q] \in {"crossed", "delete", "exit"} =>
           entities'[Region(q)] = entities[Region(q)]
  PROVE  Playing(q)'
<1>1. Region(q)' = Region(q)
  BY DEF Region, Op
<1> QED
  BY <1>1 DEF Playing

LEMMA Acted ==
  ASSUME SimulatorTypeOK, NEW p \in Scenarios, Act(p), next[p] <= Len(Script[p])
  PROVE  /\ \A q \in Scenarios \ {p} :
              step'[q] = step[q] /\ next'[q] = next[q] /\ left'[q] = left[q]
         /\ \/ step'[p] \in {"write", "iterate"} /\ next'[p] = next[p]
            \/ step'[p] = "get"
<1>1. Op(p).do \in {"spawn", "staff", "despawn"}
  BY OpOf
<1>2. CASE Op(p).do = "spawn"
  BY <1>2 DEF Act, Continue, SimulatorTypeOK
<1>3. CASE Op(p).do = "despawn"
  BY <1>3 DEF Act, Continue, SimulatorTypeOK
<1>4. CASE Op(p).do = "staff"
  <2>1. /\ step' = [step EXCEPT ![p] = "get"]
        /\ next' = [next EXCEPT ![p] = @ + 1] /\ left' = left
    BY <1>4 DEF Act
  <2> QED
    BY <2>1 DEF SimulatorTypeOK
<1> QED
  BY <1>1, <1>2, <1>3, <1>4

LEMMA PlayingKept ==
  ASSUME SimulatorTypeOK, \A p \in Scenarios : Playing(p), [SimulatorNext]_simulatorVars
  PROVE  \A q \in Scenarios : Playing(q)'
<1> USE DEF provisioning, world
<1> SUFFICES ASSUME NEW q \in Scenarios
             PROVE  Playing(q)'
  OBVIOUS
<1>1. CASE UNCHANGED <<entities, cam, step, next, left, hand>>
  BY <1>1, PlaysOn
<1>2. ASSUME NEW p \in Scenarios, FindCamera(p) \/ MissCamera(p) \/ CreateCamera(p)
      PROVE  Playing(q)'
  <2>1. /\ step[p] \in {"get", "camera"} /\ next[p] <= Len(Script[p])
        /\ UNCHANGED <<entities, next, left, hand>>
    BY <1>2 DEF FindCamera, MissCamera, CreateCamera, At, Continue
  <2>2. /\ \A r \in Scenarios \ {p} : step'[r] = step[r] /\ cam'[r] = cam[r]
        /\ \/ step'[p] = "camera"
           \/ step'[p] = "region" /\ cam'[p] \in Scenarios
    BY <1>2 DEF FindCamera, MissCamera, CreateCamera, Continue, SimulatorTypeOK
  <2>3. CASE q # p
    BY <2>1, <2>2, <2>3, PlaysOn
  <2>4. CASE q = p
    BY <2>1, <2>2, <2>4 DEF Playing
  <2> QED
    BY <2>3, <2>4
<1>3. ASSUME NEW p \in Scenarios, GetKnown(p) \/ Create(p)
      PROVE  Playing(q)'
  <2>1. /\ Act(p)
        /\ step[p] \in {"region", "create"} /\ next[p] <= Len(Script[p])
        /\ UNCHANGED <<cam, hand>>
    BY <1>3 DEF GetKnown, Create, At
  <2>2. CASE q # p
    <3>1. ASSUME step[q] \in {"crossed", "delete", "exit"}
          PROVE  entities'[Region(q)] = entities[Region(q)]
      <4>1. Region(q) # Region(p) /\ Region(q) \in Scenarios \X Rois
        BY <2>1, <2>2, <3>1, RegionsApart
      <4> QED
        BY <1>3, <4>1 DEF GetKnown, Create, SimulatorTypeOK
    <3> QED
      BY <2>1, <2>2, <3>1, Acted, PlaysOn
  <2>3. CASE q = p
    BY <2>1, <2>3, Acted DEF Playing
  <2> QED
    BY <2>2, <2>3
<1>4. ASSUME NEW p \in Scenarios, GetNew(p) \/ BeginInsert(p)
      PROVE  Playing(q)'
  <2>1. /\ \/ step[p] = "region" /\ step' = [step EXCEPT ![p] = "create"]
           \/ step[p] = "write" /\ step' = [step EXCEPT ![p] = "insert"]
        /\ next[p] <= Len(Script[p])
        /\ UNCHANGED <<next, cam, entities, left, hand>>
    BY <1>4 DEF GetNew, BeginInsert, At, Continue
  <2>2. CASE q # p
    BY <2>1, <2>2, PlaysOn DEF SimulatorTypeOK
  <2>3. CASE q = p
    <3>1. step'[p] = IF step[p] = "region" THEN "create" ELSE "insert"
      BY <2>1 DEF SimulatorTypeOK
    <3> QED
      BY <2>1, <2>3, <3>1 DEF Playing
  <2> QED
    BY <2>2, <2>3
<1>5. ASSUME NEW p \in Scenarios, Insert(p)
      PROVE  Playing(q)'
  <2>1. PICK id \in Ids : /\ entities' = [entities EXCEPT ![Region(p)] = @ \union {id}]
                          /\ hand' = [hand EXCEPT ![p] = id]
    BY <1>5 DEF Insert
  <2>2. /\ step' = [step EXCEPT ![p] = "crossed"] /\ step[p] = "insert"
        /\ next[p] <= Len(Script[p]) /\ UNCHANGED <<next, cam, left>>
    BY <1>5 DEF Insert, At, Continue
  <2>3. CASE q # p
    <3>1. ASSUME step[q] \in {"crossed", "delete", "exit"}
          PROVE  entities'[Region(q)] = entities[Region(q)]
      <4>1. Region(q) # Region(p) /\ Region(q) \in Scenarios \X Rois
        BY <2>2, <2>3, <3>1, RegionsApart
      <4> QED
        BY <2>1, <4>1 DEF SimulatorTypeOK
    <3>2. /\ step'[q] = step[q] /\ next'[q] = next[q] /\ left'[q] = left[q]
          /\ hand'[q] = hand[q] /\ cam'[q] = cam[q]
      BY <2>1, <2>2, <2>3 DEF SimulatorTypeOK
    <3> QED
      BY <3>1, <3>2, PlaysOn
  <2>4. CASE q = p
    <3>1. Region(p)' = Region(p)
      BY <2>2 DEF Region, Op
    <3>2. step'[p] = "crossed" /\ hand'[p] = id /\ id # Nothing
      BY <2>1, <2>2, NothingAssumption DEF SimulatorTypeOK
    <3>3. cam[p] \in Scenarios /\ Region(p) \in Scenarios \X Rois
      BY <2>2, RegionOf DEF Playing
    <3>4. id \in entities'[Region(p)]
      BY <2>1, <3>3 DEF SimulatorTypeOK
    <3> QED
      BY <2>2, <2>4, <3>1, <3>2, <3>3, <3>4 DEF Playing
  <2> QED
    BY <2>3, <2>4
<1>6. ASSUME NEW p \in Scenarios, FireCrossed(p)
      PROVE  Playing(q)'
  <2>1. /\ step' = [step EXCEPT ![p] = "get"] /\ hand' = [hand EXCEPT ![p] = Nothing]
        /\ next' = [next EXCEPT ![p] = @ + 1] /\ UNCHANGED <<cam, entities, left>>
    BY <1>6 DEF FireCrossed, EndOfOp
  <2>2. CASE q # p
    BY <2>1, <2>2, PlaysOn DEF SimulatorTypeOK
  <2>3. CASE q = p
    BY <2>1, <2>3 DEF Playing, SimulatorTypeOK
  <2> QED
    BY <2>2, <2>3
<1>7. ASSUME NEW p \in Scenarios, BeginDelete(p)
      PROVE  Playing(q)'
  <2>1. PICK id \in entities[Region(p)] : hand' = [hand EXCEPT ![p] = id]
    BY <1>7 DEF BeginDelete
  <2>2. /\ step' = [step EXCEPT ![p] = "delete"] /\ step[p] = "iterate" /\ left[p] > 0
        /\ next[p] <= Len(Script[p]) /\ UNCHANGED <<next, cam, entities, left>>
    BY <1>7 DEF BeginDelete, At, Continue
  <2>3. cam[p] \in Scenarios /\ Region(p) \in Scenarios \X Rois
    BY <2>2, RegionOf DEF Playing
  <2>4. id \in Ids
    BY <2>1, <2>3 DEF SimulatorTypeOK
  <2>5. CASE q # p
    BY <2>1, <2>2, <2>5, PlaysOn DEF SimulatorTypeOK
  <2>6. CASE q = p
    <3>1. Region(p)' = Region(p)
      BY <2>2 DEF Region, Op
    <3>2. step'[p] = "delete" /\ hand'[p] = id /\ id # Nothing
      BY <2>1, <2>2, <2>4, NothingAssumption DEF SimulatorTypeOK
    <3> QED
      BY <2>1, <2>2, <2>3, <2>6, <3>1, <3>2 DEF Playing
  <2> QED
    BY <2>5, <2>6
<1>8. ASSUME NEW p \in Scenarios, Delete(p)
      PROVE  Playing(q)'
  <2>1. /\ step' = [step EXCEPT ![p] = "exit"] /\ step[p] = "delete"
        /\ next[p] <= Len(Script[p]) /\ UNCHANGED <<next, cam, left, hand>>
        /\ entities' = [entities EXCEPT ![Region(p)] = @ \ {hand[p]}]
    BY <1>8 DEF Delete, At, Continue
  <2>2. CASE q # p
    <3>1. ASSUME step[q] \in {"crossed", "delete", "exit"}
          PROVE  entities'[Region(q)] = entities[Region(q)]
      <4>1. Region(q) # Region(p) /\ Region(q) \in Scenarios \X Rois
        BY <2>1, <2>2, <3>1, RegionsApart
      <4> QED
        BY <2>1, <4>1 DEF SimulatorTypeOK
    <3> QED
      BY <2>1, <2>2, <3>1, PlaysOn DEF SimulatorTypeOK
  <2>3. CASE q = p
    <3>1. Region(p)' = Region(p)
      BY <2>1 DEF Region, Op
    <3>2. cam[p] \in Scenarios /\ Region(p) \in Scenarios \X Rois
      BY <2>1, RegionOf DEF Playing
    <3>3. step'[p] = "exit" /\ hand'[p] \notin entities'[Region(p)]
      BY <2>1, <3>2 DEF SimulatorTypeOK
    <3> QED
      BY <2>1, <2>3, <3>1, <3>2, <3>3 DEF Playing
  <2> QED
    BY <2>2, <2>3
<1>9. ASSUME NEW p \in Scenarios, FireExit(p)
      PROVE  Playing(q)'
  <2>1. /\ step' = [step EXCEPT ![p] = "iterate"] /\ hand' = [hand EXCEPT ![p] = Nothing]
        /\ left' = [left EXCEPT ![p] = @ - 1] /\ step[p] = "exit"
        /\ UNCHANGED <<next, cam, entities>>
    BY <1>9 DEF FireExit, Continue, At
  <2>2. CASE q # p
    BY <2>1, <2>2, PlaysOn DEF SimulatorTypeOK
  <2>3. CASE q = p
    <3>1. step'[p] = "iterate" /\ hand'[p] = Nothing
      BY <2>1 DEF SimulatorTypeOK
    <3> QED
      BY <2>1, <2>3, <3>1 DEF Playing
  <2> QED
    BY <2>2, <2>3
<1>10. ASSUME NEW p \in Scenarios, EndDespawn(p)
      PROVE  Playing(q)'
  <2>1. /\ step' = [step EXCEPT ![p] = "get"] /\ step[p] = "iterate"
        /\ next' = [next EXCEPT ![p] = @ + 1] /\ UNCHANGED <<cam, entities, left, hand>>
    BY <1>10 DEF EndDespawn, EndOfOp, At
  <2>2. CASE q # p
    BY <2>1, <2>2, PlaysOn DEF SimulatorTypeOK
  <2>3. CASE q = p
    <3>1. step'[p] = "get"
      BY <2>1 DEF SimulatorTypeOK
    <3>2. hand[p] = Nothing
      BY <2>1 DEF Playing
    <3>3. hand'[p] = Nothing
      BY <2>1, <3>2
    <3> QED
      BY <2>3, <3>1, <3>3 DEF Playing
  <2> QED
    BY <2>2, <2>3
<1>11. (\E r \in Rules : ProvisionDelete(r) \/ LateDelete(r) \/ ProvisionPost(r)) \/ Tick
         \/ Throw \/ UNCHANGED simulatorVars
         => UNCHANGED <<entities, cam, step, next, left, hand>>
  BY DEF ProvisionDelete, LateDelete, ProvisionPost, Tick, Throw, simulatorVars
<1> QED
  BY <1>1, <1>2, <1>3, <1>4, <1>5, <1>6, <1>7, <1>8, <1>9, <1>10, <1>11 DEF SimulatorNext

(* What a step does to the entities: it puts one in the region that its    *)
(* scenario is in, or takes some from there.                               *)
LEMMA EntitiesStep ==
  ASSUME SimulatorTypeOK, \A p \in Scenarios : Playing(p), [SimulatorNext]_simulatorVars,
         UNCHANGED <<camera, cam>>, entities' # entities
  PROVE  \E p \in Scenarios :
           /\ next[p] <= Len(Script[p]) /\ cam[p] \in Scenarios
           /\ \A region \in Scenarios \X Rois :
                region # Region(p) => entities'[region] = entities[region]
<1>1. PICK p \in Scenarios : Create(p) \/ Insert(p) \/ Delete(p)
  BY DEF SimulatorNext, ProvisionDelete, LateDelete, ProvisionPost, FindCamera, MissCamera,
         CreateCamera, GetKnown, GetNew, BeginInsert, FireCrossed, BeginDelete, FireExit,
         EndDespawn, Tick, Throw, simulatorVars, world
<1>2. next[p] <= Len(Script[p]) /\ step[p] \in {"create", "insert", "delete"}
  BY <1>1 DEF Create, Insert, Delete, At
<1>3. \A region \in Scenarios \X Rois :
        region # Region(p) => entities'[region] = entities[region]
  BY <1>1 DEF Create, Insert, Delete, SimulatorTypeOK
<1> QED
  BY <1>2, <1>3 DEF Playing

(* Who looks for the camera and finds it, or makes it, leaves the world.   *)
LEMMA CameraStep ==
  ASSUME [SimulatorNext]_simulatorVars
  PROVE  \/ UNCHANGED <<camera, cam>> /\ \A p \in Scenarios : ~MissCamera(p)
         \/ \E p \in Scenarios : FindCamera(p) \/ MissCamera(p) \/ CreateCamera(p)
  BY DEF SimulatorNext, ProvisionDelete, LateDelete, ProvisionPost, GetKnown, GetNew, Create,
         BeginInsert, Insert, FireCrossed, BeginDelete, Delete, FireExit, EndDespawn, Tick,
         Throw, simulatorVars, world

(* Nobody comes to make a camera but by missing it.                        *)
LEMMA NoOtherCamera ==
  ASSUME SimulatorTypeOK, [SimulatorNext]_simulatorVars, \A p \in Scenarios : ~MissCamera(p),
         NEW q \in Scenarios, step'[q] = "camera"
  PROVE  step[q] = "camera"
<1>1. CASE UNCHANGED step
  BY <1>1
<1>2. ASSUME NEW p \in Scenarios, NEW s \in {"get", "region", "create", "write", "insert",
                                           "crossed", "iterate", "delete", "exit"},
             step' = [step EXCEPT ![p] = s]
      PROVE  step[q] = "camera"
  BY <1>2 DEF SimulatorTypeOK
<1>3. ASSUME NEW p \in Scenarios, FindCamera(p) \/ CreateCamera(p) \/ GetNew(p)
               \/ BeginInsert(p) \/ Insert(p) \/ FireCrossed(p) \/ BeginDelete(p) \/ Delete(p)
               \/ FireExit(p) \/ EndDespawn(p)
      PROVE  step[q] = "camera"
  BY <1>2, <1>3 DEF FindCamera, CreateCamera, GetNew, BeginInsert, Insert, FireCrossed,
                    BeginDelete, Delete, FireExit, EndDespawn, Continue, EndOfOp
<1>4. ASSUME NEW p \in Scenarios, GetKnown(p) \/ Create(p)
      PROVE  step[q] = "camera"
  <2>1. Act(p) /\ next[p] <= Len(Script[p])
    BY <1>4 DEF GetKnown, Create, At
  <2> QED
    BY <2>1, Acted
<1> QED
  BY <1>1, <1>3, <1>4 DEF SimulatorNext, ProvisionDelete, LateDelete, ProvisionPost, Tick, Throw,
                          simulatorVars

LEMMA FreshKept ==
  ASSUME SimulatorTypeOK, \A p \in Scenarios : Playing(p), Fresh,
         [SimulatorNext]_simulatorVars
  PROVE  Fresh'
<1> USE DEF provisioning, world
<1>1. CASE UNCHANGED <<camera, cam>> /\ \A p \in Scenarios : ~MissCamera(p)
  <2>1. \A q \in Scenarios : step'[q] = "camera" => step[q] = "camera"
    BY <1>1, NoOtherCamera
  <2>2. CASE entities' = entities
    BY <1>1, <2>1, <2>2 DEF Fresh, Empty
  <2>3. CASE entities' # entities
    <3>1. PICK p \in Scenarios :
            /\ next[p] <= Len(Script[p]) /\ cam[p] \in Scenarios
            /\ \A region \in Scenarios \X Rois :
                 region # Region(p) => entities'[region] = entities[region]
      BY <1>1, <2>3, EntitiesStep
    <3>2. camera # Nothing
      BY <3>1, NothingAssumption DEF Fresh
    <3>3. ASSUME NEW q \in Scenarios, step[q] = "camera"
          PROVE  Empty(q)'
      <4>1. Empty(q) /\ cam[p] # q
        BY <3>1, <3>3 DEF Fresh
      <4>2. \A roi \in Rois : <<q, roi>> # Region(p)
        BY <4>1 DEF Region
      <4> QED
        BY <3>1, <4>1, <4>2 DEF Empty
    <3> QED
      BY <1>1, <2>1, <3>2, <3>3 DEF Fresh
  <2> QED
    BY <2>2, <2>3
<1>2. ASSUME NEW p \in Scenarios, FindCamera(p)
      PROVE  Fresh'
  <2>1. /\ camera # Nothing /\ cam' = [cam EXCEPT ![p] = camera]
        /\ step' = [step EXCEPT ![p] = "region"] /\ UNCHANGED <<camera, entities>>
    BY <1>2 DEF FindCamera, Continue
  <2>2. ASSUME NEW q \in Scenarios, step'[q] = "camera"
        PROVE  camera' # q /\ Empty(q)' /\ \A r \in Scenarios : cam'[r] # q
    <3>1. step[q] = "camera"
      BY <2>1, <2>2 DEF SimulatorTypeOK
    <3> QED
      BY <2>1, <3>1 DEF Fresh, Empty, SimulatorTypeOK
  <2> QED
    BY <2>1, <2>2 DEF Fresh
<1>3. ASSUME NEW p \in Scenarios, MissCamera(p)
      PROVE  Fresh'
  <2>1. camera = Nothing /\ UNCHANGED <<camera, entities, cam>>
    BY <1>3 DEF MissCamera
  <2>2. \A q \in Scenarios : cam[q] = Nothing /\ Empty(q) /\ Empty(q)'
    BY <2>1 DEF Fresh, Empty
  <2> QED
    BY <2>1, <2>2, NothingAssumption DEF Fresh
<1>4. ASSUME NEW p \in Scenarios, CreateCamera(p)
      PROVE  Fresh'
  <2>1. /\ camera' = p /\ cam' = [cam EXCEPT ![p] = p]
        /\ step' = [step EXCEPT ![p] = "region"] /\ UNCHANGED entities
    BY <1>4 DEF CreateCamera, Continue
  <2>2. ASSUME NEW q \in Scenarios, step'[q] = "camera"
        PROVE  camera' # q /\ Empty(q)' /\ \A r \in Scenarios : cam'[r] # q
    <3>1. step[q] = "camera" /\ q # p
      BY <2>1, <2>2 DEF SimulatorTypeOK
    <3> QED
      BY <2>1, <3>1 DEF Fresh, Empty, SimulatorTypeOK
  <2>3. camera' # Nothing
    BY <2>1, NothingAssumption
  <2> QED
    BY <2>2, <2>3 DEF Fresh
<1> QED
  BY <1>1, <1>2, <1>3, <1>4, CameraStep

LEMMA UnusedKept ==
  ASSUME SimulatorTypeOK, \A p \in Scenarios : Playing(p), Fresh, Unused,
         [SimulatorNext]_simulatorVars
  PROVE  Unused'
<1> USE DEF provisioning, world
<1> SUFFICES ASSUME NEW q \in Scenarios, NEW roi \in Rois, camera' \in Scenarios,
                    cam'[q] # camera', Owns(q, roi)
             PROVE  entities'[<<camera', roi>>] = {}
  BY DEF Unused, Owns
<1>1. CASE UNCHANGED <<camera, cam>> /\ \A p \in Scenarios : ~MissCamera(p)
  <2>1. entities[<<camera, roi>>] = {}
    BY <1>1 DEF Unused
  <2>2. ASSUME entities' # entities
        PROVE  entities'[<<camera, roi>>] = {}
    <3>1. PICK p \in Scenarios :
            /\ next[p] <= Len(Script[p]) /\ cam[p] \in Scenarios
            /\ \A region \in Scenarios \X Rois :
                 region # Region(p) => entities'[region] = entities[region]
      BY <1>1, <2>2, EntitiesStep
    <3>2. <<camera, roi>> # Region(p)
      <4>1. SUFFICES ASSUME camera = cam[p], roi = Op(p).roi
                     PROVE  FALSE
        BY DEF Region
      <4>2. Owns(p, roi)
        BY <3>1, <4>1, OwnsOp
      <4>3. p = q
        BY <4>2, OneOwner
      <4> QED
        BY <1>1, <4>1, <4>3
    <3> QED
      BY <1>1, <2>1, <3>1, <3>2
  <2> QED
    BY <1>1, <2>1, <2>2
<1>2. ASSUME NEW p \in Scenarios, FindCamera(p)
      PROVE  entities'[<<camera', roi>>] = {}
  <2>1. cam' = [cam EXCEPT ![p] = camera] /\ UNCHANGED <<camera, entities>>
    BY <1>2 DEF FindCamera
  <2>2. q # p
    BY <2>1 DEF SimulatorTypeOK
  <2>3. cam[q] # camera
    BY <2>1, <2>2 DEF SimulatorTypeOK
  <2> QED
    BY <2>1, <2>3 DEF Unused
<1>3. ASSUME NEW p \in Scenarios, MissCamera(p)
      PROVE  entities'[<<camera', roi>>] = {}
  BY <1>3, NothingAssumption DEF MissCamera
<1>4. ASSUME NEW p \in Scenarios, CreateCamera(p)
      PROVE  entities'[<<camera', roi>>] = {}
  <2>1. camera' = p /\ UNCHANGED entities /\ step[p] = "camera"
    BY <1>4 DEF CreateCamera, At
  <2> QED
    BY <2>1 DEF Fresh, Empty
<1> QED
  BY <1>1, <1>2, <1>3, <1>4, CameraStep


(* Nothing changes in a region, for an entity.                             *)
LEMMA ToldStill ==
  ASSUME SimulatorTypeOK, NEW roi \in Rois, NEW id \in Ids, Told(roi, id),
         camera' \in Scenarios /\ id \in entities'[<<camera', roi>>] =>
           camera \in Scenarios /\ id \in entities[<<camera, roi>>],
         Somewhere(roi, id) => Somewhere(roi, id)',
         Crossed(fired'[roi], id) <=> Crossed(fired[roi], id),
         \A p \in Scenarios :
           step[p] \in {"crossed", "exit"} /\ hand[p] = id /\ Op(p).roi = roi =>
             UNCHANGED <<step[p], next[p], hand[p]>>
  PROVE  Told(roi, id)'
<1>1. CASE ~Unsent(roi, id)
  BY <1>1 DEF Told
<1>2. CASE Unsent(roi, id)
  <2>1. PICK p \in Scenarios :
               hand[p] = id /\ Op(p).roi = roi /\ step[p] \in {"crossed", "exit"}
    BY <1>2 DEF Unsent
  <2>2. UNCHANGED <<step[p], next[p], hand[p]>>
    BY <2>1
  <2>3. Op(p)' = Op(p)
    BY <2>2 DEF Op
  <2>4. hand'[p] = id /\ Op(p)'.roi = roi /\ step'[p] \in {"crossed", "exit"}
    BY <2>1, <2>2, <2>3
  <2> QED
    BY <2>4 DEF Told, Unsent
<1> QED
  BY <1>1, <1>2

(* One event more in one region.                                           *)
LEMMA ToldAfter ==
  ASSUME SimulatorTypeOK, \A p \in Scenarios : Playing(p), Unused,
         \A r \in Rois, i \in Ids : Told(r, i),
         NEW p \in Scenarios, NEW kind \in {"line_crossed", "exit"},
         next[p] <= Len(Script[p]),
         step[p] = IF kind = "line_crossed" THEN "crossed" ELSE "exit",
         \A q \in Scenarios \ {p} : UNCHANGED <<step[q], next[q], hand[q]>>,
         UNCHANGED <<camera, entities, gone>>,
         fired' = [fired EXCEPT ![Op(p).roi] = Append(@, <<kind, hand[p]>>)]
  PROVE  \A roi \in Rois, id \in Ids : Told(roi, id)'
<1> SUFFICES ASSUME NEW roi \in Rois, NEW id \in Ids
             PROVE  Told(roi, id)'
  OBVIOUS
<1>1. Op(p).roi \in Rois /\ hand[p] \in Ids /\ cam[p] \in Scenarios
  BY OpOf DEF Playing, SimulatorTypeOK
<1>2. Somewhere(roi, id)' <=> Somewhere(roi, id)
  BY DEF Somewhere
<1>3. CASE roi # Op(p).roi \/ id # hand[p]
  <2>1. Crossed(fired'[roi], id) <=> Crossed(fired[roi], id)
    <3>1. CASE roi # Op(p).roi
      <4>1. fired'[roi] = fired[roi]
        BY <1>1, <3>1 DEF SimulatorTypeOK
      <4> QED
        BY <4>1
    <3>2. CASE roi = Op(p).roi /\ id # hand[p]
      <4>1. fired[roi] \in Seq(Events) /\ fired'[roi] = Append(fired[roi], <<kind, hand[p]>>)
        BY <1>1, <3>2 DEF SimulatorTypeOK
      <4> QED
        BY <1>1, <3>2, <4>1, CrossedNow
    <3> QED
      BY <1>3, <3>1, <3>2
  <2>2. \A q \in Scenarios :
          step[q] \in {"crossed", "exit"} /\ hand[q] = id /\ Op(q).roi = roi =>
            UNCHANGED <<step[q], next[q], hand[q]>>
    BY <1>3
  <2> QED
    BY <1>2, <2>1, <2>2, ToldStill
<1>4. CASE roi = Op(p).roi /\ id = hand[p]
  <2>1. fired[roi] \in Seq(Events) /\ fired'[roi] = Append(fired[roi], <<kind, id>>)
    BY <1>1, <1>4 DEF SimulatorTypeOK
  <2>2. Crossed(fired'[roi], id) <=> kind = "line_crossed"
    BY <2>1, CrossedNow
  <2>3. Region(p) = <<cam[p], roi>>
    BY <1>4 DEF Region
  <2>4. CASE kind = "line_crossed"
    <3>1. Somewhere(roi, id)
      BY <1>1, <1>4, <2>3, <2>4 DEF Playing, Somewhere
    <3> QED
      BY <1>2, <2>2, <2>4, <3>1 DEF Told
  <2>5. CASE kind = "exit"
    <3>1. id \notin entities[<<cam[p], roi>>]
      BY <1>4, <2>3, <2>5 DEF Playing
    <3>2. Owns(p, roi)
      BY <1>4, OwnsOp
    <3>3. camera \in Scenarios => id \notin entities[<<camera, roi>>]
      BY <3>1, <3>2 DEF Unused
    <3>4. ~Crossed(fired'[roi], id)
      BY <2>2, <2>5
    <3> QED
      BY <3>3, <3>4 DEF Told
  <2> QED
    BY <2>4, <2>5
<1> QED
  BY <1>3, <1>4

LEMMA ToldKept ==
  ASSUME SimulatorTypeOK, \A p \in Scenarios : Playing(p), Fresh, Unused,
         \A roi \in Rois, id \in Ids : Told(roi, id), [SimulatorNext]_simulatorVars
  PROVE  \A roi \in Rois, id \in Ids : Told(roi, id)'
<1> USE DEF provisioning, world
<1> SUFFICES ASSUME NEW roi \in Rois, NEW id \in Ids
             PROVE  Told(roi, id)'
  OBVIOUS
<1>1. ASSUME UNCHANGED <<camera, entities, gone, fired>>,
             \A p \in Scenarios :
               step[p] \in {"crossed", "exit"} => UNCHANGED <<step[p], next[p], hand[p]>>
      PROVE  Told(roi, id)'
  <2>1. Somewhere(roi, id)' <=> Somewhere(roi, id)
    BY <1>1 DEF Somewhere
  <2> QED
    BY <1>1, <2>1, ToldStill
<1>2. ASSUME NEW p \in Scenarios, GetKnown(p)
      PROVE  Told(roi, id)'
  <2>1. /\ Act(p) /\ step[p] = "region" /\ next[p] <= Len(Script[p])
        /\ UNCHANGED <<camera, entities, gone, fired, hand>>
    BY <1>2 DEF GetKnown, At
  <2> QED
    BY <1>1, <2>1, Acted
<1>3. ASSUME NEW p \in Scenarios,
             FindCamera(p) \/ MissCamera(p) \/ GetNew(p) \/ BeginInsert(p) \/ BeginDelete(p)
               \/ EndDespawn(p)
      PROVE  Told(roi, id)'
  <2>1. UNCHANGED <<camera, entities, gone, fired>> /\ step[p] \notin {"crossed", "exit"}
    BY <1>3 DEF FindCamera, MissCamera, GetNew, BeginInsert, BeginDelete, EndDespawn, At
  <2>2. \A q \in Scenarios \ {p} : UNCHANGED <<step[q], next[q], hand[q]>>
    BY <1>3 DEF FindCamera, MissCamera, GetNew, BeginInsert, BeginDelete, EndDespawn, Continue,
                EndOfOp, SimulatorTypeOK
  <2> QED
    BY <1>1, <2>1, <2>2
<1>4. ASSUME NEW p \in Scenarios, CreateCamera(p)
      PROVE  Told(roi, id)'
  <2>1. /\ camera' = p /\ UNCHANGED <<entities, gone, fired, hand, next>> /\ step[p] = "camera"
        /\ step' = [step EXCEPT ![p] = "region"]
    BY <1>4 DEF CreateCamera, At, Continue
  <2>2. id \notin entities'[<<camera', roi>>]
    BY <2>1 DEF Fresh, Empty
  <2>3. Somewhere(roi, id)' <=> Somewhere(roi, id)
    BY <2>1 DEF Somewhere
  <2>4. \A q \in Scenarios : step[q] \in {"crossed", "exit"} =>
          UNCHANGED <<step[q], next[q], hand[q]>>
    BY <2>1 DEF SimulatorTypeOK
  <2> QED
    BY <2>1, <2>2, <2>3, <2>4, ToldStill
<1>5. ASSUME NEW p \in Scenarios, Create(p)
      PROVE  Told(roi, id)'
  <2>1. /\ Act(p) /\ step[p] = "create" /\ next[p] <= Len(Script[p])
        /\ UNCHANGED <<camera, fired, hand>>
        /\ gone' = [gone EXCEPT ![Op(p).roi] = @ \union entities[Region(p)]]
        /\ entities' = [entities EXCEPT ![Region(p)] = {}]
    BY <1>5 DEF Create, At
  <2>2. Op(p).roi \in Rois /\ cam[p] \in Scenarios
    BY <2>1, OpOf DEF Playing
  <2>3. \A c \in Scenarios : entities'[<<c, roi>>] =
          IF <<c, roi>> = Region(p) THEN {} ELSE entities[<<c, roi>>]
    BY <2>1 DEF SimulatorTypeOK
  <2>4. gone[roi] \subseteq gone'[roi] /\ (roi = Op(p).roi => entities[Region(p)] \subseteq gone'[roi])
    BY <2>1, <2>2 DEF SimulatorTypeOK
  <2>5. \A c \in Scenarios : <<c, roi>> = Region(p) => roi = Op(p).roi
    BY DEF Region
  <2>6. Somewhere(roi, id) => Somewhere(roi, id)'
    BY <2>3, <2>4, <2>5 DEF Somewhere
  <2>7. \A q \in Scenarios : step[q] \in {"crossed", "exit"} =>
          UNCHANGED <<step[q], next[q], hand[q]>>
    BY <2>1, Acted
  <2>8. camera' \in Scenarios /\ id \in entities'[<<camera', roi>>] =>
          camera \in Scenarios /\ id \in entities[<<camera, roi>>]
    BY <2>1, <2>3
  <2>9. Crossed(fired'[roi], id) <=> Crossed(fired[roi], id)
    BY <2>1
  <2>10. \A q \in Scenarios :
           step[q] \in {"crossed", "exit"} /\ hand[q] = id /\ Op(q).roi = roi =>
             UNCHANGED <<step[q], next[q], hand[q]>>
    BY <2>7
  <2> QED
    BY <2>6, <2>8, <2>9, <2>10, ToldStill
<1>6. ASSUME NEW p \in Scenarios, Insert(p)
      PROVE  Told(roi, id)'
  <2>1. PICK i \in Ids : /\ entities' = [entities EXCEPT ![Region(p)] = @ \union {i}]
                         /\ hand' = [hand EXCEPT ![p] = i]
    BY <1>6 DEF Insert
  <2>2. /\ step' = [step EXCEPT ![p] = "crossed"] /\ step[p] = "insert"
        /\ next[p] <= Len(Script[p]) /\ UNCHANGED <<camera, gone, next, fired>>
    BY <1>6 DEF Insert, At, Continue
  <2>3. \A q \in Scenarios \ {p} : UNCHANGED <<step[q], next[q], hand[q]>>
    BY <2>1, <2>2 DEF SimulatorTypeOK
  <2>4. CASE roi # Op(p).roi \/ id # i
    <3>1. \A c \in Scenarios : id \in entities'[<<c, roi>>] <=> id \in entities[<<c, roi>>]
      <4>1. \A c \in Scenarios : <<c, roi>> = Region(p) => id # i
        BY <2>4 DEF Region
      <4> QED
        BY <2>1, <4>1 DEF SimulatorTypeOK
    <3>2. Somewhere(roi, id) => Somewhere(roi, id)'
      BY <2>2, <3>1 DEF Somewhere
    <3> QED
      BY <2>2, <2>3, <3>1, <3>2, ToldStill
  <2>5. CASE roi = Op(p).roi /\ id = i
    <3>1. Op(p)' = Op(p)
      BY <2>2 DEF Op
    <3>2. hand'[p] = id /\ step'[p] = "crossed"
      BY <2>1, <2>2, <2>5 DEF SimulatorTypeOK
    <3> QED
      BY <2>5, <3>1, <3>2 DEF Told, Unsent
  <2> QED
    BY <2>4, <2>5
<1>7. ASSUME NEW p \in Scenarios, Delete(p)
      PROVE  Told(roi, id)'
  <2>1. /\ step' = [step EXCEPT ![p] = "exit"] /\ step[p] = "delete"
        /\ next[p] <= Len(Script[p]) /\ UNCHANGED <<camera, gone, next, hand, fired>>
        /\ entities' = [entities EXCEPT ![Region(p)] = @ \ {hand[p]}]
    BY <1>7 DEF Delete, At, Continue
  <2>2. \A q \in Scenarios \ {p} : UNCHANGED <<step[q], next[q], hand[q]>>
    BY <2>1 DEF SimulatorTypeOK
  <2>3. CASE roi # Op(p).roi \/ id # hand[p]
    <3>1. \A c \in Scenarios : id \in entities'[<<c, roi>>] <=> id \in entities[<<c, roi>>]
      <4>1. \A c \in Scenarios : <<c, roi>> = Region(p) => id # hand[p]
        BY <2>3 DEF Region
      <4> QED
        BY <2>1, <4>1 DEF SimulatorTypeOK
    <3>2. Somewhere(roi, id) => Somewhere(roi, id)'
      BY <2>1, <3>1 DEF Somewhere
    <3> QED
      BY <2>1, <2>2, <3>1, <3>2, ToldStill
  <2>4. CASE roi = Op(p).roi /\ id = hand[p]
    <3>1. Op(p)' = Op(p)
      BY <2>1 DEF Op
    <3>2. hand'[p] = id /\ step'[p] = "exit"
      BY <2>1, <2>4 DEF SimulatorTypeOK
    <3> QED
      BY <2>4, <3>1, <3>2 DEF Told, Unsent
  <2> QED
    BY <2>3, <2>4
<1>8. ASSUME NEW p \in Scenarios, FireCrossed(p)
      PROVE  Told(roi, id)'
  <2>1. /\ step' = [step EXCEPT ![p] = "get"] /\ step[p] = "crossed"
        /\ next' = [next EXCEPT ![p] = @ + 1] /\ hand' = [hand EXCEPT ![p] = Nothing]
        /\ next[p] <= Len(Script[p]) /\ UNCHANGED <<camera, entities, gone>>
        /\ fired' = [fired EXCEPT ![Op(p).roi] = Append(@, <<"line_crossed", hand[p]>>)]
    BY <1>8 DEF FireCrossed, EndOfOp, At
  <2>2. \A q \in Scenarios \ {p} : UNCHANGED <<step[q], next[q], hand[q]>>
    BY <2>1 DEF SimulatorTypeOK
  <2> QED
    BY <2>1, <2>2, ToldAfter
<1>9. ASSUME NEW p \in Scenarios, FireExit(p)
      PROVE  Told(roi, id)'
  <2>1. /\ step' = [step EXCEPT ![p] = "iterate"] /\ step[p] = "exit"
        /\ UNCHANGED next /\ hand' = [hand EXCEPT ![p] = Nothing]
        /\ next[p] <= Len(Script[p]) /\ UNCHANGED <<camera, entities, gone>>
        /\ fired' = [fired EXCEPT ![Op(p).roi] = Append(@, <<"exit", hand[p]>>)]
    BY <1>9 DEF FireExit, Continue, At
  <2>2. \A q \in Scenarios \ {p} : UNCHANGED <<step[q], next[q], hand[q]>>
    BY <2>1 DEF SimulatorTypeOK
  <2> QED
    BY <2>1, <2>2, ToldAfter
<1>10. (\E r \in Rules : ProvisionDelete(r) \/ LateDelete(r) \/ ProvisionPost(r)) \/ Tick
         \/ Throw \/ UNCHANGED simulatorVars
        => UNCHANGED <<camera, entities, gone, fired, step, next, hand>>
  BY DEF ProvisionDelete, LateDelete, ProvisionPost, Tick, Throw, simulatorVars
<1> QED
  BY <1>1, <1>2, <1>3, <1>4, <1>5, <1>6, <1>7, <1>8, <1>9, <1>10 DEF SimulatorNext

LEMMA ReportedKept ==
  ASSUME SimulatorTypeOK, Reported, [SimulatorNext]_simulatorVars
  PROVE  Reported'
<1> USE DEF provisioning
<1>1. ASSUME NEW r \in Rules, ProvisionDelete(r)
      PROVE  Reported'
  BY <1>1 DEF ProvisionDelete, Reported, SimulatorTypeOK
<1>2. ASSUME NEW r \in Rules, LateDelete(r)
      PROVE  Reported'
  BY <1>2 DEF LateDelete, Reported, SimulatorTypeOK
<1>3. ASSUME NEW r \in Rules, ProvisionPost(r)
      PROVE  Reported'
  BY <1>3 DEF ProvisionPost, Reported, SimulatorTypeOK
<1>4. ASSUME UNCHANGED provisioning
      PROVE  Reported'
  BY <1>4 DEF Reported
<1> QED
  BY <1>1, <1>2, <1>3, <1>4
  DEF SimulatorNext, FindCamera, MissCamera, CreateCamera, GetKnown, GetNew, Create,
      BeginInsert, Insert, FireCrossed, BeginDelete, Delete, FireExit, EndDespawn, Tick, Throw,
      simulatorVars

LEMMA SimulatorInvHolds == SimulatorSpec => []SimulatorInv
<1>1. SimulatorInit => SimulatorInv
  <2> SUFFICES ASSUME SimulatorInit
               PROVE  SimulatorInv
    OBVIOUS
  <2>1. SimulatorTypeOK
    <3>1. /\ stored \in [Rules -> {"none", "old", "new"}]
          /\ asked \in [Rules -> {"delete", "post", "done"}]
          /\ late \in [Rules -> {"no", "due", "served"}]
          /\ reported \subseteq Rules /\ camera \in Scenarios \union {Nothing}
          /\ rois \in [Scenarios -> SUBSET Rois]
      BY DEF SimulatorInit
    <3>2. /\ entities \in [Scenarios \X Rois -> SUBSET Ids]
          /\ writing \in [Maps -> SUBSET Scenarios] /\ fatal \in BOOLEAN
          /\ cam \in [Scenarios -> Scenarios \union {Nothing}]
          /\ gone \in [Rois -> SUBSET Ids]
      BY DEF SimulatorInit
    <3>3. /\ step \in [Scenarios -> {"get", "camera", "region", "create", "write", "insert",
                                    "crossed", "iterate", "delete", "exit"}]
          /\ next \in [Scenarios -> Nat \ {0}] /\ left \in [Scenarios -> Nat]
          /\ hand \in [Scenarios -> Ids \union {Nothing}]
      BY DEF SimulatorInit
    <3>4. tick \in [at : {"idle", "cameras", "regions", "entities"},
                    cam : Scenarios \union {Nothing}, seen : SUBSET Rois,
                    roi : Rois \union {Nothing}, listed : SUBSET Ids]
          /\ tick.at = "idle"
      BY DEF SimulatorInit, Idle
    <3>5. fired \in [Rois -> Seq(Events)]
      BY DEF SimulatorInit
    <3> QED
      BY <3>1, <3>2, <3>3, <3>4, <3>5 DEF SimulatorTypeOK
  <2>2. \A p \in Scenarios : Playing(p)
    BY DEF SimulatorInit, Playing
  <2>3. Fresh
    BY DEF SimulatorInit, Fresh, Empty
  <2>4. Unused
    BY NothingAssumption DEF SimulatorInit, Unused
  <2>5. ASSUME NEW roi \in Rois, NEW id \in Ids
        PROVE  Told(roi, id)
    <3>1. DOMAIN fired[roi] = {} /\ camera \notin Scenarios
      BY NothingAssumption DEF SimulatorInit
    <3> QED
      BY <3>1 DEF Told, Crossed
  <2> QED
    BY <2>1, <2>2, <2>3, <2>4, <2>5 DEF SimulatorInv, SimulatorInit, Reported
<1>2. SimulatorInv /\ [SimulatorNext]_simulatorVars => SimulatorInv'
  BY SimulatorTyped, PlayingKept, FreshKept, UnusedKept, ToldKept, ReportedKept
  DEF SimulatorInv
<1> QED
  BY <1>1, <1>2, PTL DEF SimulatorSpec

(* The simulator's state is well-typed, wherever its goroutines meet; in   *)
(* particular Tick is in a region only of a camera that somebody has made. *)
THEOREM SimulatorTypeCorrect == SimulatorSpec => []SimulatorTypeOK
<1>1. SimulatorInv => SimulatorTypeOK
  BY DEF SimulatorInv
<1> QED
  BY <1>1, SimulatorInvHolds, PTL

(* What the simulator says is so, whatever the scenarios do and however    *)
(* they meet, also when each makes a camera of its own: who is told to be  *)
(* in a region is shown there, or was lost with its camera or its region.  *)
THEOREM SimulatorTellsTrueHolds == SimulatorSpec => []SimulatorTellsTrue
<1>1. SimulatorInv => SimulatorTellsTrue
  <2> SUFFICES ASSUME SimulatorInv
               PROVE  SimulatorTellsTrue
    OBVIOUS
  <2>1. ASSUME NEW roi \in Rois, ~Busy(roi), NEW id \in Ids
        PROVE  /\ Reachable(roi, id) => Crossed(fired[roi], id)
               /\ Crossed(fired[roi], id) => Reachable(roi, id) \/ Lost(roi, id)
    <3>1. ~Unsent(roi, id)
      BY <2>1, NothingAssumption DEF Busy, Unsent
    <3>2. Told(roi, id) /\ camera \in Scenarios \union {Nothing}
      BY DEF SimulatorInv, SimulatorTypeOK
    <3>3. ASSUME Somewhere(roi, id)
          PROVE  Reachable(roi, id) \/ Lost(roi, id)
      BY <3>3, NothingAssumption DEF Somewhere, Reachable, Lost
    <3> QED
      BY <3>1, <3>2, <3>3 DEF Told, Reachable
  <2> QED
    BY <2>1 DEF SimulatorInv, Reported, SimulatorTellsTrue
<1> QED
  BY <1>1, SimulatorInvHolds, PTL

-----------------------------------------------------------------------------

(* Put together, each component does what it does alone, whichever moves.  *)
THEOREM PartsBehave == AllSpec => Spec /\ PageSpec /\ SimulatorSpec
<1>1. AllInit => Init /\ PageInit /\ SimulatorInit
  BY DEF AllInit
<1>2. [AllNext]_allVars => [Next]_vars
  BY DEF AllNext, allVars, ActionStep, PageStep, SimulatorStep
<1>3. [AllNext]_allVars => [PageNext]_pageVars
  BY DEF AllNext, allVars, ActionStep, PageStep, SimulatorStep
<1>4. [AllNext]_allVars => [SimulatorNext]_simulatorVars
  BY DEF AllNext, allVars, ActionStep, PageStep, SimulatorStep
<1>5. QED
  BY <1>1, <1>2, <1>3, <1>4, PTL DEF AllSpec, Spec, PageSpec, SimulatorSpec

(* So all of them are sound in their types.                                *)
THEOREM AllTypesHold == AllSpec => []TypesOK
<1>1. TypeOK /\ PageTypeOK /\ SimulatorTypeOK => TypesOK
  BY DEF TypesOK
<1>2. QED
  BY <1>1, PartsBehave, TypeCorrect, PageTypeCorrect, SimulatorTypeCorrect, PTL

(* And what is proved of each component holds of the composition.          *)
THEOREM OutsideIsTrue ==
  AllSpec => [](FilesAreWhole /\ RowsTellTheTruth /\ ListShowsHistory /\ SimulatorTellsTrue)
  BY PartsBehave, FilesAreWholeHolds, RowsTellTheTruthHolds, ListShowsHistoryHolds,
     SimulatorTellsTrueHolds, PTL

=============================================================================
