----------------------- MODULE InstanceSettingsProofs -----------------------
(***************************************************************************)
(* That the running client keeps up with the row: the invariant behind      *)
(* InSync and its preservation by every step of InstanceSettings. The       *)
(* theorem about the composed specification is in EventDeliveryProofs.      *)
(***************************************************************************)
EXTENDS InstanceSettings, TLAPS

\* Steps of a request that belong to one kind only.
KindsFit ==
  \A k \in Task :
    /\ task[k].pc = "start" => task[k].kind \in {"connect", "start"}
    /\ task[k].pc \in {"saved", "read"} => task[k].kind \in {"connect", "advanced"}

\* A request that has run alone so far is the only one, and knows the row.
AloneKnowsRow ==
  \A k \in Task :
    InProgress(k) /\ task[k].alone =>
      /\ \A j \in Task \ {k} : ~InProgress(j)
      /\ task[k].pc = "loaded" => task[k].copy = row
      /\ task[k].pc = "read" => task[k].read = row
      /\ task[k].pc = "start" => task[k].copy = row
      /\ task[k].kind = "connect" => task[k].copy = row

\* A Connect that has written the row and not yet told the client.
Telling(k) == task[k].kind = "connect" /\ task[k].pc \in {"saved", "read", "start"}

NothingOverlaps == ~excused => \A k \in Task : InProgress(k) => task[k].alone

KeepsUp ==
  ~excused =>
    /\ registered /\ (\A k \in Task : ~Telling(k)) => installed = row
    /\ \A k \in Task : task[k].kind = "connect" /\ task[k].pc = "start" => ~registered

SyncInv == KindsFit /\ AloneKnowsRow /\ NothingOverlaps /\ KeepsUp

-----------------------------------------------------------------------------
(***************************************************************************)
(* What the operators the actions share do to the requests                  *)
(***************************************************************************)
PCs == {"idle", "loaded", "saved", "read", "start", "done"}

\* The request k is now t, and the others are as they were.
OnlyBecomes(k, t) ==
  /\ task' \in [Task -> TaskRec]
  /\ \A j \in Task : j # k => task'[j] = task[j]
  /\ task'[k] = t

\* Version 0 is the settings an instance starts with.
LEMMA ZeroIsVersion == 0 \in Version
  BY VersionAssumption DEF VersionAssumption, Version

LEMMA DoneType == DoneTask \in TaskRec /\ DoneTask.pc = "done" /\ DoneTask.kind = "save"
  BY ZeroIsVersion DEF DoneTask, NoTask, TaskRec, Kinds

\* Finish ends one request.
LEMMA Finished ==
  ASSUME TypeOKSettings, NEW k \in Task, Finish(k)
  PROVE  OnlyBecomes(k, DoneTask)
  BY DoneType DEF TypeOKSettings, Finish, OnlyBecomes

\* Step changes the place of one request.
LEMMA Stepped ==
  ASSUME TypeOKSettings, NEW k \in Task, NEW pc \in PCs, Step(k, pc)
  PROVE  /\ OnlyBecomes(k, [task[k] EXCEPT !.pc = pc])
         /\ task'[k].pc = pc /\ task'[k].kind = task[k].kind /\ task'[k].copy = task[k].copy
         /\ task'[k].read = task[k].read /\ task'[k].alone = task[k].alone
  <1>1. task[k] \in TaskRec
    BY DEF TypeOKSettings
  <1>2. [task[k] EXCEPT !.pc = pc] \in TaskRec
    BY <1>1 DEF TaskRec, PCs
  <1>3. OnlyBecomes(k, [task[k] EXCEPT !.pc = pc])
    BY <1>2 DEF TypeOKSettings, Step, OnlyBecomes
  <1>4. task'[k] = [task[k] EXCEPT !.pc = pc]
    BY <1>3 DEF OnlyBecomes
  <1> QED
    BY <1>1, <1>3, <1>4 DEF TaskRec

-----------------------------------------------------------------------------
(***************************************************************************)
(* Every step keeps the types.                                              *)
(***************************************************************************)
LEMMA SettingsTypes ==
  ASSUME TypeOKSettings, NextSettings \/ CrashSettings \/ UNCHANGED settings
  PROVE  TypeOKSettings'
  <1> USE DEF TypeOKSettings
  <1>1. ASSUME NEW k \in Task, NEW m \in Kinds, Begin(k, m)
        PROVE  TypeOKSettings'
    <2>1. ASSUME NEW j \in Task
          PROVE  task'[j] \in TaskRec
      <3>1. CASE j = k
        <4>1. task'[j] = [pc |-> IF m = "start" THEN "start" ELSE "loaded", kind |-> m,
                          copy |-> row, read |-> 0, alone |-> Busy = {}]
          BY <1>1, <3>1 DEF Begin
        <4>2. (Busy = {}) \in BOOLEAN
          OBVIOUS
        <4>3. row \in Version
          OBVIOUS
        <4> QED
          BY <4>1, <4>2, <4>3, ZeroIsVersion DEF TaskRec
      <3>2. CASE j # k
        <4>1. task'[j] = [task[j] EXCEPT !.alone = FALSE]
          BY <1>1, <3>2 DEF Begin
        <4> QED
          BY <4>1 DEF TaskRec
      <3> QED
        BY <3>1, <3>2
    <2>2. task' \in [Task -> TaskRec]
      BY <1>1, <2>1 DEF Begin
    <2> QED
      BY <1>1, <2>2 DEF Begin
  <1>2. ASSUME NEW k \in Task, Save(k)
        PROVE  TypeOKSettings'
    <2>1. CASE task[k].kind = "connect" /\ last < MaxVersion /\ last' = last + 1
            /\ row' = last + 1 /\ task' = [task EXCEPT ![k].copy = last + 1, ![k].pc = "saved"]
      <3>1. last + 1 \in Version
        BY <2>1, VersionAssumption DEF Version, VersionAssumption
      <3>2. [[task[k] EXCEPT !.copy = last + 1] EXCEPT !.pc = "saved"] \in TaskRec
        BY <3>1 DEF TaskRec
      <3>3. task' \in [Task -> TaskRec]
        BY <2>1, <3>2
      <3> QED
        BY <1>2, <2>1, <3>1, <3>3 DEF Save, Version
    <2>2. CASE Step(k, "saved") /\ UNCHANGED <<row, last>>
      BY <1>2, <2>2, Stepped DEF Save, PCs, OnlyBecomes
    <2>3. CASE row' = task[k].copy /\ Finish(k) /\ UNCHANGED last /\ task[k].kind = "save"
      BY <1>2, <2>3, Finished DEF Save, OnlyBecomes, TaskRec
    <2> QED
      BY <1>2, <2>1, <2>2, <2>3 DEF Save
  <1>3. ASSUME NEW k \in Task, SaveFails(k)
        PROVE  TypeOKSettings'
    BY <1>3, Finished DEF SaveFails, OnlyBecomes
  <1>4. ASSUME NEW k \in Task, ReadRow(k)
        PROVE  TypeOKSettings'
    <2>1. [[task[k] EXCEPT !.read = row] EXCEPT !.pc = "read"] \in TaskRec
      BY DEF TaskRec
    <2> QED
      BY <1>4, <2>1 DEF ReadRow
  <1>5. ASSUME NEW k \in Task, ReadFails(k)
        PROVE  TypeOKSettings'
    BY <1>5, Finished, Stepped DEF ReadFails, OnlyBecomes, PCs
  <1>6. ASSUME NEW k \in Task, Install(k)
        PROVE  TypeOKSettings'
    <2>1. task[k].read \in Version /\ installed' \in Version
      BY <1>6 DEF TaskRec, Install
    <2>2. task' \in [Task -> TaskRec]
      BY <1>6, Finished, Stepped DEF Install, OnlyBecomes, PCs
    <2>3. excused' \in BOOLEAN
      BY <1>6, Zenon DEF Install
    <2> QED
      BY <1>6, <2>1, <2>2, <2>3 DEF Install
  <1>7. ASSUME NEW k \in Task, Register(k)
        PROVE  TypeOKSettings'
    <2>1. task[k].copy \in Version
      BY DEF TaskRec
    <2>2. task' \in [Task -> TaskRec]
      BY <1>7, Finished DEF Register, OnlyBecomes
    <2>3. excused' \in BOOLEAN
      BY <1>7, Zenon DEF Register
    <2> QED
      BY <1>7, <2>1, <2>2, <2>3 DEF Register
  <1>8. ASSUME Unregister \/ UNCHANGED settings
        PROVE  TypeOKSettings'
    BY <1>8, ZeroIsVersion DEF Unregister, NoCopies, settings
  <1>9. ASSUME LoopTakesKill
        PROVE  TypeOKSettings'
    BY <1>9, ZeroIsVersion DEF LoopTakesKill, NoCopies
  <1>10. ASSUME LoopRestarts
         PROVE  TypeOKSettings'
    <2>1. PICK v \in killed :
            /\ killed' = killed \ {v}
            /\ \/ /\ installed' = v
                  /\ started' = v
                  /\ registered' = TRUE
                  /\ excused' = (excused \/ v # row \/ Busy # {})
               \/ UNCHANGED <<installed, started, registered, excused>>
            /\ UNCHANGED <<row, last, task>>
      BY <1>10 DEF LoopRestarts
    <2>2. excused' \in BOOLEAN
      BY <2>1, Zenon
    <2>3. installed' \in Version /\ started' \in Version /\ registered' \in BOOLEAN
      BY <2>1
    <2> QED
      BY <2>1, <2>2, <2>3
  <1>11. ASSUME CrashSettings
         PROVE  TypeOKSettings'
    BY <1>11, ZeroIsVersion, DoneType DEF CrashSettings, NoCopies
  <1> QED
    BY <1>1, <1>2, <1>3, <1>4, <1>5, <1>6, <1>7, <1>8, <1>9, <1>10, <1>11
       DEF NextSettings, TaskStep

-----------------------------------------------------------------------------
(***************************************************************************)
(* Every step keeps SyncInv. A request in progress makes the knowledge of   *)
(* the others void: one that runs alone has no others.                      *)
(***************************************************************************)
\* The request t is in progress.
Going(t) == t.pc \notin {"idle", "done"}

KnowsRow(t) ==
  /\ t.pc = "loaded" => t.copy = row'
  /\ t.pc = "read" => t.read = row'
  /\ t.pc = "start" => t.copy = row'
  /\ t.kind = "connect" => t.copy = row'

LEMMA KindsKept ==
  ASSUME KindsFit, NEW k \in Task, NEW t, OnlyBecomes(k, t),
         t.pc = "start" => t.kind \in {"connect", "start"},
         t.pc \in {"saved", "read"} => t.kind \in {"connect", "advanced"}
  PROVE  KindsFit'
  BY DEF KindsFit, OnlyBecomes

LEMMA AloneKept ==
  ASSUME AloneKnowsRow, NEW k \in Task, InProgress(k), NEW t, OnlyBecomes(k, t),
         t.alone /\ Going(t) => task[k].alone /\ KnowsRow(t)
  PROVE  AloneKnowsRow'
  <1> SUFFICES ASSUME NEW j \in Task, InProgress(j)', task'[j].alone
        PROVE  /\ \A i \in Task \ {j} : ~InProgress(i)'
               /\ task'[j].pc = "loaded" => task'[j].copy = row'
               /\ task'[j].pc = "read" => task'[j].read = row'
               /\ task'[j].pc = "start" => task'[j].copy = row'
               /\ task'[j].kind = "connect" => task'[j].copy = row'
    BY DEF AloneKnowsRow
  <1>1. CASE j = k
    <2>1. Going(t) /\ t.alone /\ task'[j] = t
      BY <1>1 DEF OnlyBecomes, InProgress, Going
    <2>2. \A i \in Task \ {k} : ~InProgress(i) /\ task'[i] = task[i]
      BY <2>1 DEF AloneKnowsRow, OnlyBecomes
    <2> QED
      BY <1>1, <2>1, <2>2 DEF KnowsRow, InProgress
  <1>2. CASE j # k
    BY <1>2 DEF AloneKnowsRow, OnlyBecomes, InProgress
  <1> QED
    BY <1>1, <1>2

LEMMA OverlapKept ==
  ASSUME AloneKnowsRow, NothingOverlaps, NEW k \in Task, InProgress(k), NEW t, OnlyBecomes(k, t),
         Going(t) => t.alone = task[k].alone,
         ~excused' => ~excused \/ task[k].alone
  PROVE  NothingOverlaps'
  <1> SUFFICES ASSUME ~excused', NEW j \in Task, InProgress(j)'
        PROVE  task'[j].alone
    BY DEF NothingOverlaps
  <1>1. task[k].alone
    BY DEF NothingOverlaps
  <1>2. CASE j = k
    BY <1>1, <1>2 DEF OnlyBecomes, InProgress, Going
  <1>3. CASE j # k
    BY <1>1, <1>3 DEF AloneKnowsRow, OnlyBecomes, InProgress
  <1> QED
    BY <1>2, <1>3

\* When the invariant allows ~excused and k is in progress, k is the only request.
LEMMA OnlyOne ==
  ASSUME SyncInv, NEW k \in Task, InProgress(k), ~excused \/ task[k].alone
  PROVE  /\ task[k].alone
         /\ \A j \in Task : j # k => ~InProgress(j) /\ ~Telling(j)
  <1>1. task[k].alone
    BY DEF SyncInv, NothingOverlaps
  <1> QED
    BY <1>1 DEF SyncInv, AloneKnowsRow, InProgress, Telling

LEMMA SyncKept ==
  ASSUME TypeOKSettings, SyncInv, NextSettings \/ CrashSettings \/ UNCHANGED settings
  PROVE  SyncInv'
  <1> USE DEF SyncInv
  <1>1. ASSUME NEW k \in Task, NEW m \in Kinds, Begin(k, m)
        PROVE  SyncInv'
    <2>1. /\ task'[k].pc = IF m = "start" THEN "start" ELSE "loaded"
          /\ task'[k].kind = m /\ task'[k].copy = row /\ task'[k].alone = (Busy = {})
      BY <1>1 DEF Begin
    <2>2. \A j \in Task : j # k =>
            /\ task'[j].pc = task[j].pc /\ task'[j].kind = task[j].kind
            /\ ~task'[j].alone
      <3>1. ASSUME NEW j \in Task, j # k
            PROVE  task'[j] = [task[j] EXCEPT !.alone = FALSE]
        BY <1>1, <3>1 DEF Begin
      <3> QED
        BY <3>1 DEF TypeOKSettings, TaskRec
    <2>3. ~task'[k].alone \/ Busy = {}
      BY <2>1
    <2>4. KindsFit'
      BY <2>1, <2>2 DEF KindsFit, Kinds
    <2>5. AloneKnowsRow'
      BY <1>1, <2>1, <2>2, <2>3 DEF AloneKnowsRow, InProgress, Busy, Begin
    <2>6. NothingOverlaps'
      BY <1>1, <2>1, <2>2 DEF NothingOverlaps, InProgress, Busy, Begin
    <2>7. KeepsUp'
      <3>1. \A j \in Task : Telling(j) => Telling(j)'
        BY <1>1, <2>1, <2>2 DEF Begin, Telling
      <3>2. m = "connect" => task'[k].pc # "start"
        BY <2>1
      <3> SUFFICES ASSUME ~excused'
            PROVE  /\ registered' /\ (\A j \in Task : ~Telling(j)') => installed' = row'
                   /\ \A j \in Task : task'[j].kind = "connect" /\ task'[j].pc = "start"
                        => ~registered'
        BY DEF KeepsUp
      <3>3. ~excused /\ UNCHANGED <<row, installed, registered>>
        BY <1>1 DEF Begin
      <3>4. registered' /\ (\A j \in Task : ~Telling(j)') => installed' = row'
        BY <3>1, <3>3 DEF KeepsUp
      <3>5. ASSUME NEW j \in Task, task'[j].kind = "connect", task'[j].pc = "start"
            PROVE  ~registered'
        <4>1. j # k
          BY <2>1, <3>2, <3>5
        <4> QED
          BY <2>2, <3>3, <3>5, <4>1 DEF KeepsUp
      <3> QED
        BY <3>4, <3>5
    <2> QED
      BY <2>4, <2>5, <2>6, <2>7
  <1>2. ASSUME NEW k \in Task, Save(k)
        PROVE  SyncInv'
    <2>1. InProgress(k) /\ task[k].pc = "loaded" /\ excused' = excused
            /\ installed' = installed /\ registered' = registered
      BY <1>2 DEF Save, InProgress
    <2>2. CASE task[k].kind = "connect" /\ row' = last + 1
            /\ task' = [task EXCEPT ![k].copy = last + 1, ![k].pc = "saved"]
      <3> DEFINE t == [[task[k] EXCEPT !.copy = last + 1] EXCEPT !.pc = "saved"]
      <3>1. OnlyBecomes(k, t)
        <4>1. TypeOKSettings'
          BY <1>2, SettingsTypes DEF NextSettings, TaskStep
        <4> QED
          BY <4>1, <2>2 DEF OnlyBecomes, TypeOKSettings
      <3>2. t.pc = "saved" /\ t.kind = "connect" /\ t.copy = last + 1 /\ t.alone = task[k].alone
        BY <2>2 DEF TypeOKSettings, TaskRec
      <3> HIDE DEF t
      <3>3. KnowsRow(t)
        BY <2>2, <3>2 DEF KnowsRow
      <3>4. KindsFit'
        BY <3>1, <3>2, KindsKept
      <3>5. AloneKnowsRow'
        BY <2>1, <3>1, <3>2, <3>3, AloneKept
      <3>6. NothingOverlaps'
        BY <2>1, <3>1, <3>2, OverlapKept
      <3>7. KeepsUp'
        <4> SUFFICES ASSUME ~excused
              PROVE  KeepsUp'
          BY <2>1 DEF KeepsUp
        <4>1. task'[k] = t
          BY <3>1 DEF OnlyBecomes
        <4>2. Telling(k)'
          BY <4>1, <3>2 DEF Telling
        <4>3. \A j \in Task : j # k => ~InProgress(j) /\ task'[j] = task[j]
          BY <2>1, OnlyOne, <3>1 DEF OnlyBecomes
        <4> QED
          BY <2>1, <4>1, <4>2, <4>3, <3>2 DEF KeepsUp, InProgress
      <3> QED
        BY <3>4, <3>5, <3>6, <3>7
    <2>3. CASE task[k].kind = "advanced" /\ Step(k, "saved") /\ row' = row
      <3> DEFINE t == [task[k] EXCEPT !.pc = "saved"]
      <3>1. OnlyBecomes(k, t) /\ task'[k] = t
        BY <2>3, Stepped DEF PCs, OnlyBecomes
      <3>2. t.pc = "saved" /\ t.kind = "advanced" /\ t.alone = task[k].alone
        BY <2>3 DEF TypeOKSettings, TaskRec
      <3> HIDE DEF t
      <3>3. KnowsRow(t)
        BY <3>2 DEF KnowsRow
      <3>4. KindsFit'
        BY <3>1, <3>2, KindsKept
      <3>5. AloneKnowsRow'
        BY <2>1, <3>1, <3>2, <3>3, AloneKept
      <3>6. NothingOverlaps'
        BY <2>1, <3>1, <3>2, OverlapKept
      <3>7. KeepsUp'
        BY <2>1, <2>3, <3>1, <3>2 DEF KeepsUp, OnlyBecomes, Telling
      <3> QED
        BY <3>4, <3>5, <3>6, <3>7
    <2>4. CASE task[k].kind = "save" /\ row' = task[k].copy /\ Finish(k)
      <3>1. OnlyBecomes(k, DoneTask)
        BY <2>4, Finished
      <3>2. ~Going(DoneTask) /\ DoneTask.kind = "save"
        BY DoneType DEF Going
      <3>3. KindsFit'
        BY <3>1, DoneType, KindsKept
      <3>4. AloneKnowsRow'
        BY <2>1, <3>1, <3>2, AloneKept
      <3>5. NothingOverlaps'
        BY <2>1, <3>1, <3>2, OverlapKept
      <3>6. KeepsUp'
        <4> SUFFICES ASSUME ~excused
              PROVE  KeepsUp'
          BY <2>1 DEF KeepsUp
        <4>1. row' = row
          BY <2>1, <2>4, OnlyOne DEF AloneKnowsRow
        <4> QED
          BY <2>1, <2>4, <4>1, <3>1, <3>2 DEF KeepsUp, OnlyBecomes, Telling
      <3> QED
        BY <3>3, <3>4, <3>5, <3>6
    <2> QED
      BY <1>2, <2>2, <2>3, <2>4 DEF Save
  <1>3. ASSUME NEW k \in Task, InProgress(k), Finish(k), UNCHANGED <<row, installed, registered>>,
               ~excused' => ~excused, ~Telling(k)
        PROVE  SyncInv'
    <2>1. OnlyBecomes(k, DoneTask)
      BY <1>3, Finished
    <2>2. ~Going(DoneTask) /\ DoneTask.kind = "save"
      BY DoneType DEF Going
    <2>3. KindsFit'
      BY <2>1, DoneType, KindsKept
    <2>4. AloneKnowsRow'
      BY <1>3, <2>1, <2>2, AloneKept
    <2>5. NothingOverlaps'
      BY <1>3, <2>1, <2>2, OverlapKept
    <2>6. KeepsUp'
      BY <1>3, <2>1, <2>2 DEF KeepsUp, OnlyBecomes, Telling
    <2> QED
      BY <2>3, <2>4, <2>5, <2>6
  <1>4. ASSUME NEW k \in Task, SaveFails(k)
        PROVE  SyncInv'
    BY <1>3, <1>4 DEF SaveFails, InProgress, Telling
  <1>5. ASSUME NEW k \in Task, ReadRow(k)
        PROVE  SyncInv'
    <2> DEFINE t == [[task[k] EXCEPT !.read = row] EXCEPT !.pc = "read"]
    <2>1. InProgress(k) /\ task[k].pc = "saved" /\ UNCHANGED <<row, installed, registered, excused>>
      BY <1>5 DEF ReadRow, InProgress
    <2>2. OnlyBecomes(k, t)
      <3>1. TypeOKSettings'
        BY <1>5, SettingsTypes DEF NextSettings, TaskStep
      <3> QED
        BY <3>1, <1>5 DEF ReadRow, OnlyBecomes, TypeOKSettings
    <2>3. /\ t.pc = "read" /\ t.kind = task[k].kind /\ t.copy = task[k].copy
          /\ t.read = row /\ t.alone = task[k].alone
      BY DEF TypeOKSettings, TaskRec
    <2> HIDE DEF t
    <2>4. task[k].alone => KnowsRow(t)
      BY <2>1, <2>3 DEF KnowsRow, AloneKnowsRow
    <2>5. KindsFit'
      BY <2>1, <2>2, <2>3, KindsKept DEF KindsFit
    <2>6. AloneKnowsRow'
      BY <2>1, <2>2, <2>3, <2>4, AloneKept
    <2>7. NothingOverlaps'
      BY <2>1, <2>2, <2>3, OverlapKept
    <2>8. KeepsUp'
      BY <2>1, <2>2, <2>3 DEF KeepsUp, OnlyBecomes, Telling
    <2> QED
      BY <2>5, <2>6, <2>7, <2>8
  <1>6. ASSUME NEW k \in Task, InProgress(k), Step(k, "start"), UNCHANGED <<row, installed>>,
               task[k].kind = "connect", ~excused' => ~excused /\ ~registered', 
               task[k].pc \in {"saved", "read"}
        PROVE  SyncInv'
    <2> DEFINE t == [task[k] EXCEPT !.pc = "start"]
    <2>1. OnlyBecomes(k, t)
      BY <1>6, Stepped DEF PCs
    <2>2. t.pc = "start" /\ t.kind = "connect" /\ t.copy = task[k].copy /\ t.alone = task[k].alone
      BY <1>6 DEF TypeOKSettings, TaskRec
    <2> HIDE DEF t
    <2>3. task[k].alone => KnowsRow(t)
      BY <1>6, <2>2 DEF KnowsRow, AloneKnowsRow
    <2>4. KindsFit'
      BY <2>1, <2>2, KindsKept
    <2>5. AloneKnowsRow'
      BY <1>6, <2>1, <2>2, <2>3, AloneKept
    <2>6. NothingOverlaps'
      BY <1>6, <2>1, <2>2, OverlapKept
    <2>7. KeepsUp'
      BY <1>6, <2>1, <2>2 DEF KeepsUp, OnlyBecomes, Telling
    <2> QED
      BY <2>4, <2>5, <2>6, <2>7
  <1>7. ASSUME NEW k \in Task, InProgress(k), Finish(k), UNCHANGED row,
               ~excused' => ~excused \/ task[k].alone,
               task[k].alone \/ ~excused => installed' = row
        PROVE  SyncInv'
    <2>1. OnlyBecomes(k, DoneTask)
      BY <1>7, Finished
    <2>2. ~Going(DoneTask) /\ DoneTask.kind = "save"
      BY DoneType DEF Going
    <2>3. KindsFit'
      BY <2>1, DoneType, KindsKept
    <2>4. AloneKnowsRow'
      BY <1>7, <2>1, <2>2, AloneKept
    <2>5. NothingOverlaps'
      BY <1>7, <2>1, <2>2, OverlapKept
    <2>6. KeepsUp'
      <3> SUFFICES ASSUME ~excused'
            PROVE  KeepsUp'
        BY DEF KeepsUp
      <3>1. \A j \in Task : j # k => ~InProgress(j) /\ task'[j] = task[j]
        BY <1>7, OnlyOne, <2>1 DEF OnlyBecomes
      <3>2. installed' = row'
        BY <1>7
      <3>3. task'[k].kind = "save"
        BY <2>1, <2>2 DEF OnlyBecomes
      <3> QED
        BY <3>1, <3>2, <3>3 DEF KeepsUp, InProgress
    <2> QED
      BY <2>3, <2>4, <2>5, <2>6
  <1>8. ASSUME NEW k \in Task, ReadFails(k)
        PROVE  SyncInv'
    <2>1. CASE task[k].kind = "connect"
      BY <1>6, <1>8, <2>1 DEF ReadFails, InProgress
    <2>2. CASE task[k].kind # "connect"
      BY <1>3, <1>8, <2>2 DEF ReadFails, InProgress, Telling
    <2> QED
      BY <2>1, <2>2
  <1>9. ASSUME NEW k \in Task, Install(k)
        PROVE  SyncInv'
    <2>1. InProgress(k) /\ task[k].pc = "read" /\ UNCHANGED <<row, registered>>
      BY <1>9 DEF Install, InProgress
    <2>2. CASE registered
      <3>1. installed' = task[k].read /\ Finish(k) /\ excused' = (excused /\ ~task[k].alone)
        BY <1>9, <2>2 DEF Install
      <3>2. task[k].alone \/ ~excused => installed' = row
        BY <2>1, <3>1 DEF NothingOverlaps, AloneKnowsRow
      <3>3. ~excused' => ~excused \/ task[k].alone
        BY <3>1, Zenon
      <3> QED
        BY <1>7, <2>1, <3>1, <3>2, <3>3
    <2>3. CASE ~registered /\ task[k].kind = "connect"
      BY <1>6, <1>9, <2>1, <2>3 DEF Install
    <2>4. CASE ~registered /\ task[k].kind # "connect"
      BY <1>3, <1>9, <2>1, <2>4 DEF Install, Telling
    <2> QED
      BY <2>2, <2>3, <2>4
  <1>10. ASSUME NEW k \in Task, Register(k)
         PROVE  SyncInv'
    <2>1. InProgress(k) /\ task[k].pc = "start" /\ row' = row /\ Finish(k)
      BY <1>10 DEF Register, InProgress
    <2>2. CASE installed' = task[k].copy /\ excused' = (excused /\ ~task[k].alone)
      <3>1. task[k].alone \/ ~excused => installed' = row
        BY <2>1, <2>2 DEF NothingOverlaps, AloneKnowsRow
      <3>2. ~excused' => ~excused \/ task[k].alone
        BY <2>2, Zenon
      <3> QED
        BY <1>7, <2>1, <3>1, <3>2
    <2>3. CASE UNCHANGED <<installed, registered, excused>>
      <3>1. CASE Telling(k)
        <4>1. excused' \/ (~registered' /\ ~excused)
          BY <2>1, <2>3, <3>1 DEF KeepsUp, Telling
        <4>2. ~excused' => ~excused
          BY <2>3
        <4>3. KindsFit' /\ AloneKnowsRow' /\ NothingOverlaps'
          <5>1. OnlyBecomes(k, DoneTask)
            BY <2>1, Finished
          <5>2. ~Going(DoneTask)
            BY DoneType DEF Going
          <5> QED
            BY <2>1, <4>2, <5>1, <5>2, DoneType, KindsKept, AloneKept, OverlapKept
        <4> QED
          BY <4>1, <4>3 DEF KeepsUp
      <3>2. CASE ~Telling(k)
        BY <1>3, <2>1, <2>3, <3>2
      <3> QED
        BY <3>1, <3>2
    <2> QED
      BY <1>10, <2>2, <2>3 DEF Register
  <1>11. ASSUME UNCHANGED <<row, task, excused>>, ~registered' \/ UNCHANGED <<installed, registered>>
         PROVE  SyncInv'
    BY <1>11 DEF KindsFit, AloneKnowsRow, NothingOverlaps, KeepsUp, InProgress, Telling
  <1>12. ASSUME LoopRestarts
         PROVE  SyncInv'
    <2>1. PICK v \in killed :
            /\ \/ /\ installed' = v
                  /\ registered' = TRUE
                  /\ excused' = (excused \/ v # row \/ Busy # {})
               \/ UNCHANGED <<installed, registered, excused>>
            /\ UNCHANGED <<row, task>>
      BY <1>12 DEF LoopRestarts
    <2>2. CASE UNCHANGED <<installed, registered, excused>>
      BY <1>11, <2>1, <2>2
    <2>3. CASE installed' = v /\ excused' = (excused \/ v # row \/ Busy # {})
      <3>1. KindsFit' /\ AloneKnowsRow'
        BY <2>1 DEF KindsFit, AloneKnowsRow, InProgress
      <3>2. ~excused' => ~excused /\ v = row /\ Busy = {}
        BY <2>3, Zenon
      <3>3. ~excused' => \A k \in Task : ~InProgress(k)'
        BY <2>1, <3>2 DEF Busy, InProgress
      <3> QED
        BY <2>1, <2>3, <3>1, <3>2, <3>3 DEF NothingOverlaps, KeepsUp, InProgress
    <2> QED
      BY <2>1, <2>2, <2>3
  <1>13. ASSUME CrashSettings
         PROVE  SyncInv'
    <2>1. \A j \in Task : ~InProgress(j)' /\ task'[j].pc \notin {"start", "saved", "read"}
      BY <1>13, DoneType DEF CrashSettings, InProgress
    <2> QED
      BY <1>13, <2>1 DEF CrashSettings, NoCopies, KindsFit, AloneKnowsRow, NothingOverlaps, KeepsUp
  <1> QED
    BY <1>1, <1>2, <1>4, <1>5, <1>8, <1>9, <1>10, <1>11, <1>12, <1>13
       DEF NextSettings, TaskStep, Unregister, LoopTakesKill, NoCopies, settings

\* The promise is what the invariant says when nothing is in progress.
LEMMA SyncMeansInSync ==
  ASSUME SyncInv
  PROVE  InSync
  <1>1. Busy = {} => \A k \in Task : ~Telling(k)
    BY DEF Busy, InProgress, Telling
  <1> QED
    BY <1>1 DEF SyncInv, KeepsUp, InSync

\* Nothing has been written or started in the first state.
LEMMA SettingsStart ==
  ASSUME InitSettings
  PROVE  TypeOKSettings /\ SyncInv
  <1>1. NoTask \in TaskRec /\ NoTask.pc = "idle" /\ NoTask.kind = "save"
    BY ZeroIsVersion DEF NoTask, TaskRec, Kinds
  <1>2. TypeOKSettings
    BY <1>1, ZeroIsVersion DEF InitSettings, TypeOKSettings
  <1>3. \A k \in Task : task[k] = NoTask
    BY DEF InitSettings
  <1> QED
    BY <1>1, <1>2, <1>3
       DEF InitSettings, SyncInv, KindsFit, AloneKnowsRow, NothingOverlaps, KeepsUp, InProgress
=============================================================================
